---- MODULE Spec2Model ----
(***************************************************************************)
(* A model of the stand-alone scripts of the repository: the heap sift     *)
(* utility (bftree.py), the connected-region finder (regions_in_grid.py),  *)
(* the fouriest-number finder (fouriest.py) and the cypher word adder      *)
(* (cypher_adding/cypher_word_adding.py).  The scripts share no state, so  *)
(* each has its own variables and its own specification; a specification   *)
(* leaves the variables of the other scripts untouched.                    *)
(*                                                                         *)
(* Python lists are 0-indexed; the model keeps the source's 0-based        *)
(* indices and reads a list through At(list, i).                           *)
(***************************************************************************)
EXTENDS Integers, Sequences, FiniteSets, TLC

VARIABLES heap, heap_in, heap_op, heap_status,
          grid, regions_out, regions_pc,
          four_num, four_i, max_num_four, max_fours, four_pc,
          conv_n, conv_b, conv_d, conv_pc,
          cy_words, cy_cyph_nums, cy_sum_num, cy_new_word, cy_err, cy_pc,
          orb_pos, orb_vel, orb_mass, orb_num_objects, orb_cinds, orb_offset,
          orb_G, orb_dt, orb_scale, orb_acc, body_colors, line_colors,
          show_paths, orbital_prev, timer_active, pause_text, paint_pending,
          popups, place_new_body, new_obj_vel, new_obj_mass, frame_pos,
          frame_offset, orb_steps, orb_status,
          im_entry, im_args, im_pc, im_exc, im_ini, im_dirs, im_files,
          im_effects, im_album_hashes, im_img_dirs, im_force_check_exist,
          im_force_check_empty, im_n, im_img_list,
          tr_tree, tr_branch_factor, tr_options, tr_printed, tr_returned, tr_pc

heapVars == <<heap, heap_in, heap_op, heap_status>>

regionVars == <<grid, regions_out, regions_pc>>

fourVars == <<four_num, four_i, max_num_four, max_fours, four_pc>>

convVars == <<conv_n, conv_b, conv_d, conv_pc>>

cypherVars == <<cy_words, cy_cyph_nums, cy_sum_num, cy_new_word, cy_err, cy_pc>>

orbitVars ==
    <<orb_pos, orb_vel, orb_mass, orb_num_objects, orb_cinds, orb_offset, orb_G,
      orb_dt, orb_scale, orb_acc, body_colors, line_colors, show_paths,
      orbital_prev, timer_active, pause_text, paint_pending, popups,
      place_new_body, new_obj_vel, new_obj_mass, frame_pos, frame_offset,
      orb_steps, orb_status>>

imgurVars ==
    <<im_entry, im_args, im_pc, im_exc, im_ini, im_dirs, im_files, im_effects,
      im_album_hashes, im_img_dirs, im_force_check_exist, im_force_check_empty,
      im_n, im_img_list>>

treeVars == <<tr_tree, tr_branch_factor, tr_options, tr_printed, tr_returned, tr_pc>>

vars ==
    <<heapVars, regionVars, fourVars, convVars, cypherVars, orbitVars, imgurVars,
      treeVars>>

\* What a script leaves alone: the variables of the other scripts.
notHeap == <<regionVars, fourVars, convVars, cypherVars, orbitVars,
      imgurVars, treeVars>>

notRegions == <<heapVars, fourVars, convVars, cypherVars, orbitVars,
      imgurVars, treeVars>>

notFouriest == <<heapVars, regionVars, convVars, cypherVars, orbitVars,
      imgurVars, treeVars>>

notConvert == <<heapVars, regionVars, fourVars, cypherVars, orbitVars,
      imgurVars, treeVars>>

notCypher == <<heapVars, regionVars, fourVars, convVars, orbitVars,
      imgurVars, treeVars>>

notOrbit ==
    <<heapVars, regionVars, fourVars, convVars, cypherVars, imgurVars, treeVars>>

notImgur ==
    <<heapVars, regionVars, fourVars, convVars, cypherVars, orbitVars, treeVars>>

notTree ==
    <<heapVars, regionVars, fourVars, convVars, cypherVars, orbitVars, imgurVars>>

(***************************************************************************)
(* Bounds of the model.                                                    *)
(***************************************************************************)
MaxVal == 4
MaxHeapLen == 4
MaxRows == 2
MaxCols == 4
MaxN == 20
MaxB == 8
MaxNum == 130
MaxWords == 2
MaxWordLen == 2
MaxPos == 2
MaxMass == 2
MaxSteps == 2
MaxBodies == 3
GridBits == 2
MaxCoord == 4
MaxTreeLen == 35
MaxBranch == 3

\* The number the module docstring of fouriest.py works out.
DocNum == 4048

(***************************************************************************)
(* Python list helpers.                                                    *)
(***************************************************************************)
At(list, i) == list[i + 1]

\* list.index(v): the first (0-based) index holding v.
index(list, v) ==
    (CHOOSE k \in 1..Len(list) :
        /\ list[k] = v
        /\ \A j \in 1..(k - 1) : list[j] # v) - 1

\* abs(x)
Abs(x) == IF x < 0 THEN -x ELSE x

(***************************************************************************)
(* bftree.py: the heap sift utility.                                       *)
(***************************************************************************)
HeapValues == 1..MaxVal

HeapArrays == UNION {[1..n -> HeapValues] : n \in 0..MaxHeapLen}

\* _swap(open_set, i, j): the list with the elements at i and j exchanged.
swap(open_set, i, j) ==
    [open_set EXCEPT ![i + 1] = At(open_set, j), ![j + 1] = At(open_set, i)]

\* The while loop of move_up.  The swap branch calls _swap(ind, up_ind) with
\* two arguments where _swap takes three: Python raises TypeError at the call,
\* before anything is exchanged, and the loop never reaches a second turn.
move_up_loop(h, num) ==
    LET ind == index(h, num)
        val == num
    IN  IF ind = 0
        THEN [heap |-> h, status |-> "returned"]
        ELSE LET up_ind == (ind - 1) \div 2
                 up_val == At(h, up_ind)
             IN  IF val < up_val
                 THEN [heap |-> h, status |-> "TypeError"]
                 ELSE [heap |-> h, status |-> "returned"]

\* move_up(heap, num): heap.append(num), then the loop.
move_up_result(h, num) == move_up_loop(Append(h, num), num)

\* The while loop of move_down.  right_val is None when the right child is
\* absent (right_absent); `left_val <= right_val` is evaluated before
\* `right_val is None`, and an int compared with None raises TypeError
\* (Python 3).
RECURSIVE move_down_loop(_, _)
move_down_loop(h, val) ==
    LET ind == index(h, val)
        left_ind == 2 * ind + 1
        right_ind == left_ind + 1
    IN  IF ~(Len(h) > left_ind)
        THEN [heap |-> h, status |-> "returned"]
        ELSE LET left_val == At(h, left_ind)
                 right_absent == ~(Len(h) > right_ind)
                 right_val == At(h, right_ind)
             IN  IF left_val < val
                 THEN IF right_absent
                      THEN [heap |-> h, status |-> "TypeError"]
                      ELSE IF left_val <= right_val
                           THEN move_down_loop(swap(h, ind, left_ind), val)
                           ELSE IF right_val < val
                                THEN move_down_loop(swap(h, ind, right_ind), val)
                                ELSE [heap |-> h, status |-> "returned"]
                 ELSE IF ~right_absent /\ right_val < val
                      THEN move_down_loop(swap(h, ind, right_ind), val)
                      ELSE [heap |-> h, status |-> "returned"]

\* move_down(heap): nothing to do on an empty list, else sift heap[0] down.
move_down_result(h) ==
    IF Len(h) = 0
    THEN [heap |-> h, status |-> "returned"]
    ELSE move_down_loop(h, At(h, 0))

\* A caller inserts num into the list it has built so far.  An uncaught
\* TypeError ends the script, so nothing follows one.
move_up(num) ==
    /\ heap_status # "TypeError"
    /\ Len(heap) < MaxHeapLen
    /\ LET r == move_up_result(heap, num)
       IN  /\ heap' = r.heap
           /\ heap_status' = r.status
    /\ heap_in' = heap
    /\ heap_op' = "move_up"
    /\ UNCHANGED notHeap

\* A caller hands move_down the list it holds.
move_down ==
    /\ heap_op = "none"
    /\ LET r == move_down_result(heap)
       IN  /\ heap' = r.heap
           /\ heap_status' = r.status
    /\ heap_in' = heap
    /\ heap_op' = "move_down"
    /\ UNCHANGED notHeap

\* A variant of the turn that also swaps with a child equal to val.
move_down_turn_swaps_equal(h, val) ==
    LET ind == index(h, val)
        left_ind == 2 * ind + 1
        right_ind == left_ind + 1
        again(i, j) == [heap |-> swap(h, i, j), status |-> "running"]
    IN  IF ~(Len(h) > left_ind)
        THEN [heap |-> h, status |-> "returned"]
        ELSE LET left_val == At(h, left_ind)
                 right_absent == ~(Len(h) > right_ind)
                 right_val == At(h, right_ind)
             IN  IF left_val <= val
                 THEN IF right_absent
                      THEN [heap |-> h, status |-> "TypeError"]
                      ELSE IF left_val <= right_val
                           THEN again(ind, left_ind)
                           ELSE IF right_val <= val
                                THEN again(ind, right_ind)
                                ELSE [heap |-> h, status |-> "returned"]
                 ELSE IF ~right_absent /\ right_val <= val
                      THEN again(ind, right_ind)
                      ELSE [heap |-> h, status |-> "returned"]

\* One turn of the while loop of move_down (lines 37-60): the position of
\* val is looked up again with heap.index(val), then a swap and another turn
\* ("running"), or the return, or the TypeError of `left_val <= None`.
move_down_turn(h, val) ==
    LET ind == index(h, val)
        left_ind == 2 * ind + 1
        right_ind == left_ind + 1
        again(i, j) == [heap |-> swap(h, i, j), status |-> "running"]
    IN  IF ~(Len(h) > left_ind)
        THEN [heap |-> h, status |-> "returned"]
        ELSE LET left_val == At(h, left_ind)
                 right_absent == ~(Len(h) > right_ind)
                 right_val == At(h, right_ind)
             IN  IF left_val < val
                 THEN IF right_absent
                      THEN [heap |-> h, status |-> "TypeError"]
                      ELSE IF left_val <= right_val
                           THEN again(ind, left_ind)
                           ELSE IF right_val < val
                                THEN again(ind, right_ind)
                                ELSE [heap |-> h, status |-> "returned"]
                 ELSE IF ~right_absent /\ right_val < val
                      THEN again(ind, right_ind)
                      ELSE [heap |-> h, status |-> "returned"]

\* move_down(heap) statement by statement.  Lines 31-35: the call returns on
\* an empty list, else val = heap[0] (kept as heap_in[0]: the list is not
\* changed before the loop).
move_down_enter ==
    /\ heap_op = "none"
    /\ heap_in' = heap
    /\ heap_op' = "move_down_loop"
    /\ heap_status' = (IF Len(heap) = 0 THEN "returned" ELSE "running")
    /\ UNCHANGED heap
    /\ UNCHANGED notHeap

\* Lines 37-60: one turn of the loop.
move_down_iterate ==
    /\ heap_op = "move_down_loop"
    /\ heap_status = "running"
    /\ LET r == move_down_turn(heap, At(heap_in, 0))
       IN  /\ heap' = r.heap
           /\ heap_status' = r.status
    /\ UNCHANGED <<heap_in, heap_op>>
    /\ UNCHANGED notHeap

(***************************************************************************)
(* regions_in_grid.py: the connected-region finder.  A grid is a list of   *)
(* rows, a coordinate is <<n, m>> (row, column), 0-based.  A dict is the   *)
(* list of its entries in insertion order, which is the order Python       *)
(* iterates it in.                                                         *)
(***************************************************************************)
Grids ==
    UNION {[1..r -> [1..c -> {0, 1}]] : r \in 1..MaxRows, c \in 1..MaxCols}

\* x in list
In(x, list) == \E k \in 1..Len(list) : list[k] = x

ToSet(list) == {list[k] : k \in 1..Len(list)}

\* find_connected(n, m, n_max, m_max): the cells of the 3x3 block around
\* (n, m), i outer and j inner, kept when 0 <= x <= n_max and 0 <= y <= n_max
\* (both coordinates are compared with n_max; m_max is not read).
find_connected(n, m, n_max, m_max) ==
    LET block == [k \in 1..9 |-> <<n - 1 + ((k - 1) \div 3), m - 1 + ((k - 1) % 3)>>]
        kept(c) == 0 <= c[1] /\ c[1] <= n_max /\ 0 <= c[2] /\ c[2] <= n_max
    IN  SelectSeq(block, kept)

\* Lines 33-37: the coordinates of every 1, row by row.
ones_of(g) ==
    LET rows == Len(g)
        cols == Len(g[1])
        all == [k \in 1..(rows * cols) |-> <<(k - 1) \div cols, (k - 1) % cols>>]
        is_one(c) == g[c[1] + 1][c[2] + 1] = 1
    IN  SelectSeq(all, is_one)

\* Lines 39-44: regions[one] = connected_in_ones + [one], for each one.
initial_regions(g) ==
    LET rows == Len(g)
        ones == ones_of(g)
        in_ones(x) == In(x, ones)
        entry(one) ==
            LET connected == find_connected(one[1], one[2], rows, Len(g[one[1] + 1]))
                connected_in_ones == SelectSeq(connected, in_ones)
            IN  [init_coord |-> one, coords |-> connected_in_ones \o <<one>>]
    IN  [k \in 1..Len(ones) |-> entry(ones[k])]

\* Lines 57-59: append to target each coord of coords it does not hold yet.
RECURSIVE append_missing(_, _)
append_missing(target, coords) ==
    IF coords = <<>>
    THEN target
    ELSE append_missing(IF In(Head(coords), target)
                        THEN target
                        ELSE Append(target, Head(coords)),
                        Tail(coords))

\* Line 56: the entry overlaps an entry already in the new dict.
overlaps(entry, other) ==
    \/ In(entry.init_coord, other.coords)
    \/ \E k \in 1..Len(entry.coords) : In(entry.coords[k], other.coords)

\* Lines 51-65: one travel through the dictionary, from entry k on.  The
\* entry joins the first entry of tmp_regions it overlaps (and change grows),
\* or becomes an entry of tmp_regions itself.  The lists appended to are
\* those already taken into tmp_regions, never those still to be visited.
RECURSIVE travel(_, _, _, _)
travel(regions, k, tmp_regions, change) ==
    IF k > Len(regions)
    THEN [tmp_regions |-> tmp_regions, change |-> change]
    ELSE LET entry == regions[k]
             hits == {j \in 1..Len(tmp_regions) : overlaps(entry, tmp_regions[j])}
         IN  IF hits # {}
             THEN LET j == CHOOSE x \in hits : \A y \in hits : x <= y
                      merged == [tmp_regions EXCEPT ![j].coords =
                                    append_missing(tmp_regions[j].coords, entry.coords)]
                  IN  travel(regions, k + 1, merged, change + 1)
             ELSE travel(regions, k + 1, Append(tmp_regions, entry), change)

\* list(set(coords)): the coordinates without repetition (Python's order of
\* a set is not specified; the first occurrences are kept in order here).
RECURSIVE dedup(_)
dedup(coords) ==
    IF coords = <<>>
    THEN <<>>
    ELSE LET rest == dedup(SelectSeq(Tail(coords), LAMBDA c : c # Head(coords)))
         IN  <<Head(coords)>> \o rest

regions_values(regions) == [k \in 1..Len(regions) |-> dedup(regions[k].coords)]

\* A variant of the consolidation that travels the dictionary once only.
consolidate_once(regions) ==
    regions_values(travel(regions, 1, <<>>, 0).tmp_regions)

\* Lines 46-70: travel the dictionary until a travel merges nothing.
RECURSIVE consolidate(_)
consolidate(regions) ==
    LET t == travel(regions, 1, <<>>, 0)
    IN  IF t.change = 0
        THEN regions_values(regions)
        ELSE consolidate(t.tmp_regions)

find_regions_result(g) == consolidate(initial_regions(g))

\* find_regions(grid), called on the grid the caller holds.
find_regions ==
    /\ regions_pc = "start"
    /\ regions_out' = find_regions_result(grid)
    /\ regions_pc' = "done"
    /\ UNCHANGED <<grid, notRegions>>

(***************************************************************************)
(* fouriest.py: the fouriest-number finder.  A digit is a one-character    *)
(* string; the digits beyond "Z" (Greek and Cyrillic letters in the        *)
(* source) are written by their code point.  A representation is the list  *)
(* of its digits, most significant first ("".join(d) in the source).       *)
(***************************************************************************)
DIGITS ==
    << "0", "1", "2", "3", "4", "5", "6", "7", "8", "9", "a", "b", "c",
       "d", "e", "f", "g", "h", "i", "j", "k", "l", "m", "n", "o", "p",
       "q", "r", "s", "t", "u", "v", "w", "x", "y", "z", "A", "B", "C",
       "D", "E", "F", "G", "H", "I", "J", "K", "L", "M", "N", "O", "P",
       "Q", "R", "S", "T", "U", "V", "W", "X", "Y", "Z", "U+03B1", "U+03B2",
       "U+0393", "U+03B3", "U+0394", "U+03B4", "U+03B5", "U+03B6", "U+03B7",
       "U+0398", "U+03B8", "U+03B9", "U+03BA", "U+039B", "U+03BB", "U+03BC",
       "U+03BD", "U+039E", "U+03BE", "U+03A0", "U+03C0", "U+03C1", "U+03A3",
       "U+03C3", "U+03C2", "U+03C4", "U+03C5", "U+03A6", "U+03C6", "U+03C7",
       "U+03A8", "U+03C8", "U+03A9", "U+03C9", "U+0411", "U+0431", "U+0432",
       "U+0413", "U+0433", "U+0414", "U+0434", "U+0401", "U+0451", "U+0416",
       "U+0436", "U+0417", "U+0437", "U+0418", "U+0438", "U+0419", "U+0439",
       "U+041B", "U+043B", "U+043C", "U+043D", "U+043F", "U+0442", "U+0423",
       "U+0444", "U+0426", "U+0446", "U+0427", "U+0447", "U+0428", "U+0448",
       "U+0429", "U+0449", "U+042A", "U+044A", "U+042B", "U+044B", "U+042C",
       "U+044C", "U+042D", "U+044D", "U+042E", "U+044E", "U+042F", "U+044F" >>

PLACEHOLDER == "~"

RECURSIVE Pow(_, _)
Pow(b, i) == IF i = 0 THEN 1 ELSE b * Pow(b, i - 1)

\* i copies of x: i * [x]
Repeat(x, i) == [k \in 1..i |-> x]

\* Lines 35-38: the scan of range(n) from i on for the first i with
\* n <= b ** i, where the loop breaks with msd = i - 1.  The result is that
\* i, or n when the range is exhausted and msd is left unbound.
RECURSIVE msd_scan(_, _, _)
msd_scan(n, b, i) ==
    IF i >= n
    THEN n
    ELSE IF n <= Pow(b, i) THEN i ELSE msd_scan(n, b, i + 1)

\* Lines 49-54: DIGITS[curr_d], or the placeholder when curr_d is past the
\* end of DIGITS.
digit_of(curr_d) ==
    IF curr_d < Len(DIGITS) THEN DIGITS[curr_d + 1] ELSE PLACEHOLDER

\* Lines 41-64: the digit loop, at exponent i with n left to convert.
\* int(n / b ** i) is the quotient rounded toward zero.
RECURSIVE digit_loop(_, _, _, _, _)
digit_loop(n, b, i, msd, d) ==
    IF i < 0
    THEN d
    ELSE LET curr_d == n \div Pow(b, i)
             d1 == Append(d, digit_of(curr_d))
             n1 == IF curr_d # 0 THEN n - Pow(b, i) * curr_d ELSE n
         IN  IF n1 = 0
             THEN d1 \o Repeat("0", msd + 1 - Len(d1))
             ELSE digit_loop(n1, b, i - 1, msd, d1)

\* base10_to_base(n, b); reading the unbound msd at line 41 raises
\* UnboundLocalError.
base10_to_base(n, b) ==
    LET i == msd_scan(n, b, 0)
        msd == i - 1
    IN  IF i >= n
        THEN [d |-> <<>>, status |-> "UnboundLocalError"]
        ELSE [d |-> digit_loop(n, b, msd, msd, <<>>), status |-> "returned"]

\* d.count(x)
count(d, x) == Cardinality({k \in 1..Len(d) : d[k] = x})

\* A variant of lines 86-92 that also starts the list over on a tie.
fouriest_update_restart_on_tie(max_num, max_list, i, d) ==
    LET num_fours == count(d, "4")
    IN  IF num_fours >= max_num
        THEN [max_num_four |-> num_fours, max_fours |-> <<i, d>>]
        ELSE [max_num_four |-> max_num, max_fours |-> max_list]

\* Lines 83-92: a new maximum starts the (flat) list over with i and the
\* representation, a tie appends the two to it.
fouriest_update(max_num, max_list, i, d) ==
    LET num_fours == count(d, "4")
    IN  IF num_fours > max_num
        THEN [max_num_four |-> num_fours, max_fours |-> <<i, d>>]
        ELSE IF num_fours = max_num
             THEN [max_num_four |-> max_num, max_fours |-> max_list \o <<i, d>>]
             ELSE [max_num_four |-> max_num, max_fours |-> max_list]

\* max_fours.reshape(-1, 2): the flat list as (base, representation) pairs.
reshape2(flat) == [k \in 1..(Len(flat) \div 2) |-> <<flat[2 * k - 1], flat[2 * k]>>]

\* A variant of the loop of fouriest_find that breaks as soon as the maximum
\* reaches the length of the representation (>= for the > of line 96).
fouriest_iter_eager_break ==
    /\ four_pc = "loop"
    /\ four_i < four_num
    /\ LET d == base10_to_base(four_num, four_i).d
           u == fouriest_update(max_num_four, max_fours, four_i, d)
       IN  /\ max_num_four' = u.max_num_four
           /\ IF u.max_num_four >= Len(d)
              THEN /\ max_fours' = reshape2(u.max_fours)
                   /\ four_pc' = "done"
                   /\ four_i' = four_i
              ELSE /\ max_fours' = u.max_fours
                   /\ four_pc' = "loop"
                   /\ four_i' = four_i + 1
    /\ UNCHANGED <<four_num, notFouriest>>

\* One turn of the loop of fouriest_find (lines 80-97) for base four_i; the
\* break leaves the loop, and then lines 99-101 return.
fouriest_iter ==
    /\ four_pc = "loop"
    /\ four_i < four_num
    /\ LET d == base10_to_base(four_num, four_i).d
           u == fouriest_update(max_num_four, max_fours, four_i, d)
       IN  /\ max_num_four' = u.max_num_four
           /\ IF u.max_num_four > Len(d)
              THEN /\ max_fours' = reshape2(u.max_fours)
                   /\ four_pc' = "done"
                   /\ four_i' = four_i
              ELSE /\ max_fours' = u.max_fours
                   /\ four_pc' = "loop"
                   /\ four_i' = four_i + 1
    /\ UNCHANGED <<four_num, notFouriest>>

\* range(2, num) is exhausted: lines 99-101 return.
fouriest_return ==
    /\ four_pc = "loop"
    /\ ~(four_i < four_num)
    /\ max_fours' = reshape2(max_fours)
    /\ four_pc' = "done"
    /\ UNCHANGED <<four_num, four_i, max_num_four, notFouriest>>

\* base10_to_base called on its own.
convert ==
    /\ conv_pc = "start"
    /\ LET r == base10_to_base(conv_n, conv_b)
       IN  /\ conv_d' = r.d
           /\ conv_pc' = r.status
    /\ UNCHANGED <<conv_n, conv_b, notConvert>>

(***************************************************************************)
(* cypher_adding/cypher_word_adding.py: the cypher word adder.  A string   *)
(* is the list of its characters: a cell of the cypher is <<"a">> or       *)
(* <<"y", "z">>, a cypher number is a list of decimal digit characters.    *)
(***************************************************************************)
CYPHER5 ==
    << << <<"a">>, <<"b">>, <<"c">>, <<"d">>, <<"e">> >>,
       << <<"f">>, <<"g">>, <<"h">>, <<"i">>, <<"j">> >>,
       << <<"k">>, <<"l">>, <<"m">>, <<"n">>, <<"o">> >>,
       << <<"p">>, <<"q">>, <<"r">>, <<"s">>, <<"t">> >>,
       << <<"u">>, <<"v">>, <<"w">>, <<"x">>, <<"y", "z">> >> >>

CYPHER == CYPHER5

LowerCase ==
    << "a", "b", "c", "d", "e", "f", "g", "h", "i", "j", "k", "l", "m",
       "n", "o", "p", "q", "r", "s", "t", "u", "v", "w", "x", "y", "z" >>

UpperCase ==
    << "A", "B", "C", "D", "E", "F", "G", "H", "I", "J", "K", "L", "M",
       "N", "O", "P", "Q", "R", "S", "T", "U", "V", "W", "X", "Y", "Z" >>

DecimalDigits == << "0", "1", "2", "3", "4", "5", "6", "7", "8", "9" >>

\* char.lower()
lower(char) ==
    IF In(char, UpperCase) THEN LowerCase[index(UpperCase, char) + 1] ELSE char

\* str(n): the decimal digits of n, after a minus sign when n < 0.
RECURSIVE str(_)
str(n) ==
    IF n < 0
    THEN <<"-">> \o str(-n)
    ELSE IF n < 10
         THEN <<DecimalDigits[n + 1]>>
         ELSE Append(str(n \div 10), DecimalDigits[(n % 10) + 1])

\* int(s) for a non-empty string of decimal digits.
RECURSIVE int(_)
int(s) ==
    IF Len(s) = 1
    THEN index(DecimalDigits, s[1])
    ELSE int(SubSeq(s, 1, Len(s) - 1)) * 10 + index(DecimalDigits, s[Len(s)])

\* ''.join(parts)
RECURSIVE join(_)
join(parts) == IF parts = <<>> THEN <<>> ELSE Head(parts) \o join(Tail(parts))

\* What let_to_num returns when no cell holds the letter (falling off the
\* end of the function returns None); no cypher number is empty.
NoCode == <<>>

\* A variant of let_to_num that forgets the `+ 1` of the coordinates.
let_to_num_zero_based(let) ==
    LET n == Len(CYPHER)
        hits == {k \in 0..(n * n - 1) : In(let, CYPHER[(k \div n) + 1][(k % n) + 1])}
    IN  IF hits = {}
        THEN NoCode
        ELSE LET k == CHOOSE x \in hits : \A y \in hits : x <= y
             IN  join(<<str(k \div n), str(k % n)>>)

\* let_to_num(let): the first coord of product(range(len(CYPHER)),
\* range(len(CYPHER))), row by row, whose cell holds the letter, as
\* str(row + 1) followed by str(col + 1).
let_to_num(let) ==
    LET n == Len(CYPHER)
        hits == {k \in 0..(n * n - 1) : In(let, CYPHER[(k \div n) + 1][(k % n) + 1])}
    IN  IF hits = {}
        THEN NoCode
        ELSE LET k == CHOOSE x \in hits : \A y \in hits : x <= y
             IN  join(<<str((k \div n) + 1), str((k % n) + 1)>>)

\* Lines 50-55 for one word from character k on: the cypher number built so
\* far, or the exception raised at the first character without a code.  The
\* message is formatted from let, which is None there, and from the word.
RECURSIVE word_to_cyph_num(_, _, _)
word_to_cyph_num(word, k, acc) ==
    IF k > Len(word)
    THEN [status |-> "returned", cyph_num |-> acc, err |-> <<>>]
    ELSE LET let == let_to_num(lower(word[k]))
         IN  IF let = NoCode
             THEN [status |-> "Exception", cyph_num |-> acc,
                   err |-> <<"None", word>>]
             ELSE word_to_cyph_num(word, k + 1, acc \o let)

\* words_to_cyph_nums(*words): the cypher number of each word, or the
\* exception of the first word that raises one.
words_to_cyph_nums(words) ==
    LET each == [n \in 1..Len(words) |-> word_to_cyph_num(words[n], 1, <<>>)]
        failed == {n \in 1..Len(words) : each[n].status = "Exception"}
    IN  IF failed = {}
        THEN [status |-> "returned",
              cyph_nums |-> [n \in 1..Len(words) |-> each[n].cyph_num],
              err |-> <<>>]
        ELSE LET n == CHOOSE x \in failed : \A y \in failed : x <= y
             IN  [status |-> "Exception", cyph_nums |-> <<>>, err |-> each[n].err]

\* sum(map(int, cyph_nums))
RECURSIVE sum_ints(_)
sum_ints(cyph_nums) ==
    IF cyph_nums = <<>> THEN 0 ELSE int(Head(cyph_nums)) + sum_ints(Tail(cyph_nums))

\* A variant of add_cyph_nums that leaves the digits of the sum as they are.
add_cyph_nums_no_modulo(cyph_nums) ==
    LET new_num == str(sum_ints(cyph_nums))
    IN  IF Len(new_num) % 2 = 1 THEN Tail(new_num) ELSE new_num

\* add_cyph_nums(cyph_nums): each digit x of the sum becomes
\* (int(x) - 1) % len(CYPHER) + 1, and an odd number of digits loses the
\* leading one.
add_cyph_nums(cyph_nums) ==
    LET total == str(sum_ints(cyph_nums))
        digit(x) == str(((int(<<x>>) - 1) % Len(CYPHER)) + 1)
        new_num == join([k \in 1..Len(total) |-> digit(total[k])])
    IN  IF Len(new_num) % 2 = 1 THEN Tail(new_num) ELSE new_num

\* list[i] with Python's rules: a negative i counts from the end.
in_range(list, i) == -Len(list) <= i /\ i < Len(list)

subscript(list, i) == IF i < 0 THEN list[Len(list) + i + 1] ELSE list[i + 1]

\* Lines 90-98 from pair k of cypher_lets on.
RECURSIVE decypher_pairs(_, _, _, _)
decypher_pairs(cypher_lets, k, word, swapped) ==
    IF k > Len(cypher_lets)
    THEN [status |-> "returned", word |-> word]
    ELSE LET first == int(<<cypher_lets[k][1]>>) - 1
             second == int(<<cypher_lets[k][2]>>) - 1
             row == IF swapped THEN second ELSE first
             col == IF swapped THEN first ELSE second
         IN  IF ~in_range(CYPHER, row) \/ ~in_range(subscript(CYPHER, row), col)
             THEN [status |-> "IndexError", word |-> word]
             ELSE LET cell == subscript(subscript(CYPHER, row), col)
                      let == IF Len(cell) > 1 THEN <<"(">> \o cell \o <<")">> ELSE cell
                  IN  decypher_pairs(cypher_lets, k + 1, word \o let, swapped)

\* Line 87: the digits two by two (a last single digit is dropped by zip).
pairs_of(cyph_num) ==
    [k \in 1..(Len(cyph_num) \div 2) |-> <<cyph_num[2 * k - 1], cyph_num[2 * k]>>]

\* A variant of decypher_num that reads a pair as (col, row).
decypher_num_col_row(cyph_num) == decypher_pairs(pairs_of(cyph_num), 1, <<>>, TRUE)

\* decypher_num(cyph_num)
decypher_num(cyph_num) == decypher_pairs(pairs_of(cyph_num), 1, <<>>, FALSE)

\* The characters and the groups of words the model feeds the script: groups
\* of one-character words over every letter, two capitals and two characters
\* the 5x5 cypher does not hold, and groups of longer words over three
\* letters.
CyChars == ToSet(LowerCase) \cup {"A", "Z", "1", " "}

CyLongChars == {"e", "t", "y"}

CyGroups ==
    UNION {[1..g -> [1..1 -> CyChars]] : g \in 1..MaxWords}
    \cup UNION {[1..g -> UNION {[1..l -> CyLongChars] : l \in 1..MaxWordLen}] :
                   g \in 1..MaxWords}

\* Line 128 of calc_every_comb: the words of the combination are encoded.
encode_words ==
    /\ cy_pc = "start"
    /\ LET r == words_to_cyph_nums(cy_words)
       IN  /\ cy_cyph_nums' = r.cyph_nums
           /\ cy_err' = r.err
           /\ cy_pc' = IF r.status = "returned" THEN "encoded" ELSE "Exception"
    /\ UNCHANGED <<cy_words, cy_sum_num, cy_new_word, notCypher>>

\* Line 130 of calc_every_comb: the cypher numbers are summed.
sum_codes ==
    /\ cy_pc = "encoded"
    /\ cy_sum_num' = add_cyph_nums(cy_cyph_nums)
    /\ cy_pc' = "summed"
    /\ UNCHANGED <<cy_words, cy_cyph_nums, cy_new_word, cy_err, notCypher>>

\* Line 132 of calc_every_comb: the sum is turned back into a word.
decode_sum ==
    /\ cy_pc = "summed"
    /\ LET r == decypher_num(cy_sum_num)
       IN  /\ cy_new_word' = r.word
           /\ cy_pc' = IF r.status = "returned" THEN "decoded" ELSE "IndexError"
    /\ UNCHANGED <<cy_words, cy_cyph_nums, cy_sum_num, cy_err, notCypher>>

\* decypher_num called on the cypher number of a single word.
decode_code ==
    /\ cy_pc = "encoded"
    /\ Len(cy_cyph_nums) = 1
    /\ LET r == decypher_num(cy_cyph_nums[1])
       IN  /\ cy_new_word' = r.word
           /\ cy_pc' = IF r.status = "returned" THEN "round_trip" ELSE "IndexError"
    /\ UNCHANGED <<cy_words, cy_cyph_nums, cy_sum_num, cy_err, notCypher>>

(***************************************************************************)
(* orbits.py: the orbital simulator.  A float is modelled as the exact     *)
(* rational <<n, d>> in lowest terms with d > 0 (the rounding of float128  *)
(* is not modelled); the inputs of the model keep every body on the x      *)
(* axis, where the distance of two bodies is a rational itself.  A         *)
(* position, a velocity or an acceleration is the list of its coordinates. *)
(***************************************************************************)
RECURSIVE Gcd(_, _)
Gcd(a, b) == IF b = 0 THEN a ELSE Gcd(b, a % b)

\* nan, which 0 / 0 gives in numpy; every operation on a nan gives nan.
NaN == <<0, 0>>

is_nan(x) == x[2] = 0

\* The float n / d for d # 0.
Frac(n, d) ==
    LET g == Gcd(Abs(n), Abs(d))
        s == IF d < 0 THEN -1 ELSE 1
    IN  <<(s * n) \div g, (s * d) \div g>>

fadd(x, y) ==
    IF is_nan(x) \/ is_nan(y)
    THEN NaN
    ELSE LET g == Gcd(x[2], y[2])
         IN  Frac(x[1] * (y[2] \div g) + y[1] * (x[2] \div g), (x[2] \div g) * y[2])

fneg(x) == <<-x[1], x[2]>>

fsub(x, y) == fadd(x, fneg(y))

fmul(x, y) ==
    IF is_nan(x) \/ is_nan(y)
    THEN NaN
    ELSE LET a == Frac(x[1], y[2])
             b == Frac(y[1], x[2])
         IN  <<a[1] * b[1], a[2] * b[2]>>

\* x / y.  The only division by zero the simulator can make is 0 / 0, for
\* two objects at the same place (nan); x / 0 for x # 0 would be inf, which
\* has no value here.
fdiv(x, y) ==
    IF is_nan(x) \/ is_nan(y)
    THEN NaN
    ELSE IF y[1] = 0
         THEN CHOOSE z \in {NaN} : x[1] = 0
         ELSE fmul(x, Frac(y[2], y[1]))

\* The largest r in lo..hi with r * r <= k.
RECURSIVE isqrt_search(_, _, _)
isqrt_search(k, lo, hi) ==
    IF lo >= hi
    THEN lo
    ELSE LET mid == (lo + hi + 1) \div 2
         IN  IF mid * mid <= k
             THEN isqrt_search(k, mid, hi)
             ELSE isqrt_search(k, lo, mid - 1)

\* The root of a perfect square k.
isqrt(k) ==
    CHOOSE r \in {isqrt_search(k, 0, IF k < 46340 THEN k ELSE 46340)} : r * r = k

\* np.sqrt(x) for the square of a rational.
fsqrt(x) == IF is_nan(x) THEN NaN ELSE <<isqrt(x[1]), isqrt(x[2])>>

\* sum(list) of floats
RECURSIVE fsum(_)
fsum(list) ==
    IF list = <<>> THEN <<0, 1>> ELSE fadd(Head(list), fsum(Tail(list)))

\* max(np.abs(list)) of a non-empty list of floats
RECURSIVE fmaxabs(_)
fmaxabs(list) ==
    LET a == <<Abs(list[1][1]), list[1][2]>>
    IN  IF Len(list) = 1
        THEN a
        ELSE LET m == fmaxabs(Tail(list))
             IN  IF a[1] * m[2] >= m[1] * a[2] THEN a ELSE m

\* Lines 172-182: the cube of the distance of the objects oind and eind.
dist_cubed(pos, oind, eind, num_dims) ==
    LET squares == [dim \in 1..num_dims |->
                       LET diff == fsub(pos[oind][dim], pos[eind][dim])
                       IN  fmul(diff, diff)]
        dist == fsqrt(fsum(squares))
    IN  fmul(dist, fmul(dist, dist))

\* Lines 163-191: tot_acc[dind] of the object oind, the sum over the other
\* objects eind of mass[eind] * (pos[oind] - pos[eind]) / dist_cubed.
tot_acc(pos, mass, oind, dind, num_objects, num_dims) ==
    LET others == SelectSeq([e \in 1..num_objects |-> e], LAMBDA e : e # oind)
        term(eind) ==
            fdiv(fmul(mass[eind], fsub(pos[oind][dind], pos[eind][dind])),
                 dist_cubed(pos, oind, eind, num_dims))
    IN  fsum([k \in 1..Len(others) |-> term(others[k])])

\* A variant of find_new_acc that leaves out the minus sign of line 194.
find_new_acc_repulsive(pos, mass, G, num_objects, num_dims) ==
    [oind \in 1..num_objects |->
        [dind \in 1..num_dims |->
            fmul(G, tot_acc(pos, mass, oind, dind, num_objects, num_dims))]]

\* Orbit.find_new_acc: new_acc[oind] = [-G * acc for acc in tot_acc].
find_new_acc(pos, mass, G, num_objects, num_dims) ==
    [oind \in 1..num_objects |->
        [dind \in 1..num_dims |->
            fmul(fneg(G), tot_acc(pos, mass, oind, dind, num_objects, num_dims))]]

\* Lines 203-206: vel += acc * dt, then pos += vel * dt with the new vel.
new_vel(vel, acc, dt, num_objects, num_dims) ==
    [oind \in 1..num_objects |->
        [dind \in 1..num_dims |-> fadd(vel[oind][dind], fmul(acc[oind][dind], dt))]]

new_pos(pos, vel, dt, num_objects, num_dims) ==
    [oind \in 1..num_objects |->
        [dind \in 1..num_dims |-> fadd(pos[oind][dind], fmul(vel[oind][dind], dt))]]

\* Lines 208-225: the mean of each coordinate over the objects of cinds, or
\* dim * [0.0] when cinds is empty.
centered_offset(pos, cinds, dim) ==
    IF Len(cinds) # 0
    THEN [ind \in 1..dim |->
             fdiv(fsum([k \in 1..Len(cinds) |-> At(pos, cinds[k])[ind]]),
                  <<Len(cinds), 1>>)]
    ELSE [ind \in 1..dim |-> <<0, 1>>]

\* Orbit.update_objects(acc): the new vel, pos and offset.
update_objects(pos, vel, acc, dt, cinds, num_objects, num_dims, dim) ==
    LET v == new_vel(vel, acc, dt, num_objects, num_dims)
        p == new_pos(pos, v, dt, num_objects, num_dims)
    IN  [vel |-> v, pos |-> p, offset |-> centered_offset(p, cinds, dim)]

\* Lines 119-121: the index of each centered object, found by objs.index
\* (the first object equal to it).
cinds_of(objs) ==
    LET centered == SelectSeq(objs, LAMBDA x : x.centered = TRUE)
    IN  [k \in 1..Len(centered) |-> index(objs, centered[k])]

\* Window.__init__ defaults: width, height, obj_size, scale_coeff (1.5).
WIDTH == 500

HEIGHT == 500

OBJ_SIZE == 5

SCALE_COEFF == <<3, 2>>

\* Foreground.__init__: min_axis = min(height, width)
min_axis == IF HEIGHT < WIDTH THEN HEIGHT ELSE WIDTH

\* {0: self.width, 1: self.height}[coord_ind]
axis_size(coord_ind) == IF coord_ind = 0 THEN WIDTH ELSE HEIGHT

\* Line 524: scale_coeff * max(np.abs(pos.flatten()))
scale_of(pos) ==
    fmul(SCALE_COEFF, fmaxabs([k \in 1..(2 * Len(pos)) |-> pos[(k + 1) \div 2][2 - (k % 2)]]))

\* Foreground._scale(coord_val, coord_ind)
scale_to_pixels(coord_val, coord_ind, offset, scale) ==
    fadd(fmul(fdiv(fsub(coord_val, At(offset, coord_ind)), scale),
              fsub(Frac(min_axis, 2), <<1, 1>>)),
         Frac(axis_size(coord_ind), 2))

\* Foreground._inverse_scale(pixel_val, coord_ind, offset_factor)
inverse_scale(pixel_val, coord_ind, offset_factor, offset, scale) ==
    fadd(fdiv(fmul(scale,
                   fsub(<<2 * pixel_val, 1>>,
                        fmul(offset_factor, <<axis_size(coord_ind), 1>>))),
              <<min_axis - 2, 1>>),
         At(offset, coord_ind))

\* Foreground.drawPoints: the point recorded for each object of orbit.pos.
drawPoints(pos, offset, scale) ==
    [n \in 1..Len(pos) |->
        <<fadd(scale_to_pixels(pos[n][1], 0, offset, scale), Frac(OBJ_SIZE, 2)),
          fadd(scale_to_pixels(pos[n][2], 1, offset, scale), Frac(OBJ_SIZE, 2))>>]

\* float(text) for the texts the model types into the popups: an optional
\* sign, digits, and an optional point followed by digits.  Anything else
\* raises ValueError.
all_digits(s) == \A k \in 1..Len(s) : In(s[k], DecimalDigits)

unsigned(text) == IF text # <<>> /\ text[1] \in {"-", "+"} THEN Tail(text) ELSE text

point_at(s) == {k \in 1..Len(s) : s[k] = "."}

parses_as_float(text) ==
    LET s == unsigned(text)
    IN  IF point_at(s) = {}
        THEN Len(s) > 0 /\ all_digits(s)
        ELSE /\ Cardinality(point_at(s)) = 1
             /\ Len(s) > 1
             /\ all_digits(SelectSeq(s, LAMBDA c : c # "."))

float_of_text(text) ==
    LET s == unsigned(text)
        k == IF point_at(s) = {} THEN Len(s) + 1 ELSE CHOOSE p \in point_at(s) : TRUE
        whole == SubSeq(s, 1, k - 1)
        part == SubSeq(s, k + 1, Len(s))
        magnitude == fadd(<<IF whole = <<>> THEN 0 ELSE int(whole), 1>>,
                          Frac(IF part = <<>> THEN 0 ELSE int(part), Pow(10, Len(part))))
    IN  IF text[1] = "-" THEN fneg(magnitude) ELSE magnitude

\* is_float(element): float(element) raises no ValueError.  An int always
\* casts; a text casts when it parses.
is_float(element) ==
    IF element.kind = "int" THEN TRUE ELSE parses_as_float(element.text)

\* Lines 597-599 of PopupBase._button_clicked: every check is called on
\* check[0], the index itself, not on the argument at that index.
checks_pass(wrapped_args, checks) ==
    \A k \in 1..Len(checks) : is_float([kind |-> "int", text |-> <<>>])

\* A Body of the scene: mass, pos and vel as floats, the colours as names
\* ("None" when not given), show_path and centered.
Body(mass, pos, vel, body_color, line_color, show_path, centered) ==
    [mass |-> mass, pos |-> pos, vel |-> vel, body_color |-> body_color,
     line_color |-> line_color, show_path |-> show_path, centered |-> centered]

\* Picture.__init__, lines 407-411: the default colours are filled in.
fill_colors(objs, default_color) ==
    [k \in 1..Len(objs) |->
        LET body == IF objs[k].body_color = "None" THEN default_color
                    ELSE objs[k].body_color
            line == IF objs[k].line_color = "None" THEN body ELSE objs[k].line_color
        IN  [objs[k] EXCEPT !.body_color = body, !.line_color = line]]

\* The scenes the simulator is started on: two bodies of mass 1 on the x
\* axis, MaxPos apart, the first at the origin and moving toward the second,
\* each centered or not.
OrbitScenes ==
    {<<Body(<<m1, 1>>, <<<<x[1], 1>>, <<0, 1>>>>, <<<<v1, 1>>, <<0, 1>>>>,
            "firebrick", "None", FALSE, c1),
       Body(<<m2, 1>>, <<<<x[2], 1>>, <<0, 1>>>>, <<<<0, 1>>, <<0, 1>>>>,
            "None", "None", TRUE, c2)>> :
        m1 \in {1}, m2 \in {1},
        x \in {0} \X {MaxPos},
        v1 \in {1}, c1 \in BOOLEAN, c2 \in BOOLEAN}

\* The scenes find_new_acc is called on by itself: two bodies anywhere in
\* the plane at a whole distance of one another (along an axis, or along the
\* hypotenuse of a 3-4-5 triangle).
AccOffsets ==
    {<<dx, 0>> : dx \in (-MaxPos..MaxPos) \ {0}}
    \cup {<<0, dy>> : dy \in (-MaxPos..MaxPos) \ {0}}
    \cup {<<3, 4>>, <<-3, 4>>, <<4, -3>>, <<-4, -3>>}

AccScenes ==
    {<<Body(<<m1, 1>>, <<<<x, 1>>, <<y, 1>>>>, <<<<0, 1>>, <<0, 1>>>>,
            "None", "None", TRUE, FALSE),
       Body(<<m2, 1>>, <<<<x + o[1], 1>>, <<y + o[2], 1>>>>, <<<<0, 1>>, <<0, 1>>>>,
            "None", "None", TRUE, FALSE)>> :
        m1 \in 1..MaxMass, m2 \in 1..MaxMass,
        x \in 0..1, y \in -1..0, o \in AccOffsets}

\* What is typed into the popups: a new value for G or for dt, and the
\* mass and the velocity of a new body.
ValueTexts ==
    {<<"G", <<"0">>>>, <<"G", <<"x">>>>, <<"dt", <<"1", ".", "0">>>>, <<"dt", <<>>>>}

MassTexts == {<<"1">>, <<"2">>, <<>>}

VelXTexts == {<<"-", "1", ".", "0">>, <<"1", "e">>}

VelYTexts == {<<"0">>}

\* Where the mouse is clicked: the pixel row that projects to the x axis.
ClickXs == {294}

ClickYs == {265}

\* The floats the model follows the simulation through: the multiples of
\* 1 / 2^GridBits of magnitude at most MaxCoord (and nan).  The numbers of a
\* step taken from there stay within the integers of the model checker.
on_grid(x) ==
    IF is_nan(x)
    THEN TRUE
    ELSE Pow(2, GridBits) % x[2] = 0 /\ Abs(x[1]) <= MaxCoord * x[2]

all_on_grid(vectors) ==
    \A n \in 1..Len(vectors) : \A k \in 1..Len(vectors[n]) : on_grid(vectors[n][k])

\* Foreground.paintEvent: drawPoints with the offset as it stands, then
\* orbit.iterate().  painter.drawEllipse(int(x), int(y), ...) raises
\* ValueError on a nan, after the point of that object was recorded and
\* before the iteration.
paintEvent ==
    /\ orb_status = "running"
    /\ paint_pending
    /\ orb_steps < MaxSteps
    /\ all_on_grid(orb_pos) /\ all_on_grid(orb_vel)
    /\ LET prev == drawPoints(orb_pos, orb_offset, orb_scale)
           nans == {n \in 1..Len(prev) : is_nan(prev[n][1]) \/ is_nan(prev[n][2])}
       IN  IF nans # {}
           THEN /\ orbital_prev' = SubSeq(prev, 1, CHOOSE n \in nans : \A k \in nans : n <= k)
                /\ orb_status' = "ValueError"
                /\ UNCHANGED <<orb_pos, orb_vel, orb_offset, orb_acc, orb_steps>>
           ELSE LET acc == find_new_acc(orb_pos, orb_mass, orb_G, orb_num_objects,
                                        Len(orb_pos[1]))
                    u == update_objects(orb_pos, orb_vel, acc, orb_dt, orb_cinds,
                                        orb_num_objects, Len(orb_pos[1]), Len(orb_pos[1]))
                IN  /\ orbital_prev' = prev
                    /\ orb_acc' = acc
                    /\ orb_vel' = u.vel
                    /\ orb_pos' = u.pos
                    /\ orb_offset' = u.offset
                    /\ orb_steps' = orb_steps + 1
                    /\ UNCHANGED orb_status
    /\ frame_pos' = orb_pos
    /\ frame_offset' = orb_offset
    /\ paint_pending' = FALSE
    /\ UNCHANGED <<orb_mass, orb_num_objects, orb_cinds, orb_G, orb_dt, orb_scale,
                   body_colors, line_colors, show_paths, timer_active,
                   pause_text, popups, place_new_body, new_obj_vel, new_obj_mass,
                   notOrbit>>

\* A variant of the slot of the timer that advances the simulation itself
\* instead of leaving it to the paint event.
multi_update_iterating ==
    /\ orb_status = "running"
    /\ timer_active
    /\ orb_steps < MaxSteps
    /\ all_on_grid(orb_pos) /\ all_on_grid(orb_vel)
    /\ LET acc == find_new_acc(orb_pos, orb_mass, orb_G, orb_num_objects, Len(orb_pos[1]))
           u == update_objects(orb_pos, orb_vel, acc, orb_dt, orb_cinds,
                               orb_num_objects, Len(orb_pos[1]), Len(orb_pos[1]))
       IN  /\ orb_acc' = acc
           /\ orb_vel' = u.vel
           /\ orb_pos' = u.pos
           /\ orb_offset' = u.offset
    /\ orb_steps' = orb_steps + 1
    /\ paint_pending' = TRUE
    /\ UNCHANGED <<orb_mass, orb_num_objects, orb_cinds, orb_G, orb_dt, orb_scale,
                   body_colors, line_colors, show_paths, orbital_prev, timer_active,
                   pause_text, popups, place_new_body, new_obj_vel, new_obj_mass,
                   frame_pos, frame_offset, orb_status, notOrbit>>

\* Picture._multi_update, the slot of the timer: foreground.update() asks
\* for a paint event of the foreground (background.paintEvent() and
\* self.update() draw on the screen and change no attribute).
multi_update ==
    /\ orb_status = "running"
    /\ timer_active
    /\ paint_pending' = TRUE
    /\ UNCHANGED <<orb_pos, orb_vel, orb_mass, orb_num_objects, orb_cinds, orb_offset,
                   orb_G, orb_dt, orb_scale, orb_acc, body_colors, line_colors,
                   show_paths, orbital_prev, timer_active, pause_text, popups,
                   place_new_body, new_obj_vel, new_obj_mass, frame_pos, frame_offset,
                   orb_steps, orb_status, notOrbit>>

\* Window._toggle_pause
toggle_pause ==
    /\ orb_status = "running"
    /\ timer_active' = ~timer_active
    /\ pause_text' = IF timer_active THEN "Unpause Simulation" ELSE "Pause Simulation"
    /\ UNCHANGED <<orb_pos, orb_vel, orb_mass, orb_num_objects, orb_cinds, orb_offset,
                   orb_G, orb_dt, orb_scale, orb_acc, body_colors, line_colors,
                   show_paths, orbital_prev, paint_pending, popups,
                   place_new_body, new_obj_vel, new_obj_mass, frame_pos, frame_offset,
                   orb_steps, orb_status, notOrbit>>

\* Window._edit_val(attr, name), attr "dt" or "G", and Window._add_body
\* ("add"): the popup is shown.  One popup is open at a time.
show_popup(attr) ==
    /\ orb_status = "running"
    /\ popups = {}
    /\ popups' = popups \cup {attr}
    /\ UNCHANGED <<orb_pos, orb_vel, orb_mass, orb_num_objects, orb_cinds, orb_offset,
                   orb_G, orb_dt, orb_scale, orb_acc, body_colors, line_colors,
                   show_paths, orbital_prev, timer_active, pause_text,
                   paint_pending, place_new_body, new_obj_vel, new_obj_mass,
                   frame_pos, frame_offset, orb_steps, orb_status, notOrbit>>

\* The Accept button of a ChangeValue popup with text typed in:
\* _button_clicked(_change_val, [attr, text], [(1, is_float)]).  A failed
\* check returns; otherwise _change_val runs setattr(orbit, attr,
\* float(new_val)), whose ValueError nothing catches, and the popup closes
\* after it.
change_value_accept(attr, text) ==
    /\ orb_status = "running"
    /\ attr \in popups
    /\ IF ~checks_pass(<<attr, text>>, <<1>>)
       THEN UNCHANGED <<orb_G, orb_dt, popups, orb_status>>
       ELSE IF ~parses_as_float(text)
            THEN /\ orb_status' = "ValueError"
                 /\ UNCHANGED <<orb_G, orb_dt, popups>>
            ELSE /\ orb_G' = IF attr = "G" THEN float_of_text(text) ELSE orb_G
                 /\ orb_dt' = IF attr = "dt" THEN float_of_text(text) ELSE orb_dt
                 /\ popups' = popups \ {attr}
                 /\ UNCHANGED orb_status
    /\ UNCHANGED <<orb_pos, orb_vel, orb_mass, orb_num_objects, orb_cinds, orb_offset,
                   orb_scale, orb_acc, body_colors, line_colors, show_paths,
                   orbital_prev, timer_active, pause_text, paint_pending,
                   place_new_body, new_obj_vel, new_obj_mass, frame_pos, frame_offset,
                   orb_steps, notOrbit>>

\* The Place button of the AddBody popup (AddBody._button_clicked): the
\* three texts are cast, _setup_new_body_placement records them and primes
\* the next click, and the popup closes; a ValueError of a cast is passed
\* over.
add_body_accept(velx, vely, mass_text) ==
    /\ orb_status = "running"
    /\ "add" \in popups
    /\ orb_num_objects < MaxBodies
    /\ IF parses_as_float(velx) /\ parses_as_float(vely) /\ parses_as_float(mass_text)
       THEN /\ new_obj_vel' = <<float_of_text(velx), fneg(float_of_text(vely))>>
            /\ new_obj_mass' = <<float_of_text(mass_text)>>
            /\ place_new_body' = TRUE
            /\ popups' = popups \ {"add"}
       ELSE UNCHANGED <<new_obj_vel, new_obj_mass, place_new_body, popups>>
    /\ UNCHANGED <<orb_pos, orb_vel, orb_mass, orb_num_objects, orb_cinds, orb_offset,
                   orb_G, orb_dt, orb_scale, orb_acc, body_colors, line_colors,
                   show_paths, orbital_prev, timer_active, pause_text,
                   paint_pending, frame_pos, frame_offset, orb_steps, orb_status,
                   notOrbit>>

\* A variant of mousePressEvent that leaves the placement primed (without
\* lines 360, 380 and 381).
mousePressEvent_stays_primed(px, py) ==
    /\ orb_status = "running"
    /\ orb_num_objects < MaxBodies
    /\ IF place_new_body
       THEN /\ body_colors' = Append(body_colors, "black")
            /\ line_colors' = Append(line_colors, "black")
            /\ show_paths' = Append(show_paths, FALSE)
            /\ orb_vel' = Append(orb_vel, new_obj_vel)
            /\ orb_mass' = Append(orb_mass, new_obj_mass[1])
            /\ orb_num_objects' = orb_num_objects + 1
            /\ orb_pos' = Append(orb_pos,
                   <<inverse_scale(px, 0, <<101, 100>>, orb_offset, orb_scale),
                     inverse_scale(py, 1, <<53, 50>>, orb_offset, orb_scale)>>)
       ELSE UNCHANGED <<body_colors, line_colors, show_paths, orb_vel, orb_mass,
                        orb_num_objects, orb_pos>>
    /\ UNCHANGED <<place_new_body, new_obj_vel, new_obj_mass, orb_cinds, orb_offset,
                   orb_G, orb_dt, orb_scale, orb_acc, orbital_prev, timer_active,
                   pause_text, paint_pending, popups, frame_pos, frame_offset,
                   orb_steps, orb_status, notOrbit>>

\* A variant of mousePressEvent that leaves show_paths as it is (without
\* line 369).
mousePressEvent_without_show_path(px, py) ==
    /\ orb_status = "running"
    /\ IF place_new_body
       THEN /\ place_new_body' = FALSE
            /\ body_colors' = Append(body_colors, "black")
            /\ line_colors' = Append(line_colors, "black")
            /\ show_paths' = show_paths
            /\ orb_vel' = Append(orb_vel, new_obj_vel)
            /\ orb_mass' = Append(orb_mass, new_obj_mass[1])
            /\ orb_num_objects' = orb_num_objects + 1
            /\ orb_pos' = Append(orb_pos,
                   <<inverse_scale(px, 0, <<101, 100>>, orb_offset, orb_scale),
                     inverse_scale(py, 1, <<53, 50>>, orb_offset, orb_scale)>>)
            /\ new_obj_vel' = <<>>
            /\ new_obj_mass' = <<>>
       ELSE UNCHANGED <<place_new_body, body_colors, line_colors, show_paths, orb_vel,
                        orb_mass, orb_num_objects, orb_pos, new_obj_vel, new_obj_mass>>
    /\ UNCHANGED <<orb_cinds, orb_offset, orb_G, orb_dt, orb_scale, orb_acc,
                   orbital_prev, timer_active, pause_text, paint_pending,
                   popups, frame_pos, frame_offset, orb_steps, orb_status, notOrbit>>

\* Window.mousePressEvent with the mouse at pixel (px, py).  new_obj_vel and
\* new_obj_mass are deleted after a placement (the empty list here).
mousePressEvent(px, py) ==
    /\ orb_status = "running"
    /\ IF place_new_body
       THEN /\ place_new_body' = FALSE
            /\ body_colors' = Append(body_colors, "black")
            /\ line_colors' = Append(line_colors, "black")
            /\ show_paths' = Append(show_paths, FALSE)
            /\ orb_vel' = Append(orb_vel, new_obj_vel)
            /\ orb_mass' = Append(orb_mass, new_obj_mass[1])
            /\ orb_num_objects' = orb_num_objects + 1
            /\ orb_pos' = Append(orb_pos,
                   <<inverse_scale(px, 0, <<101, 100>>, orb_offset, orb_scale),
                     inverse_scale(py, 1, <<53, 50>>, orb_offset, orb_scale)>>)
            /\ new_obj_vel' = <<>>
            /\ new_obj_mass' = <<>>
       ELSE UNCHANGED <<place_new_body, body_colors, line_colors, show_paths, orb_vel,
                        orb_mass, orb_num_objects, orb_pos, new_obj_vel, new_obj_mass>>
    /\ UNCHANGED <<orb_cinds, orb_offset, orb_G, orb_dt, orb_scale, orb_acc,
                   orbital_prev, timer_active, pause_text, paint_pending,
                   popups, frame_pos, frame_offset, orb_steps, orb_status, notOrbit>>

\* Orbit.find_new_acc called by itself on the orbit as it stands.
find_new_acc_call ==
    /\ orb_status = "constructed"
    /\ orb_acc' = find_new_acc(orb_pos, orb_mass, orb_G, orb_num_objects, Len(orb_pos[1]))
    /\ orb_status' = "returned"
    /\ UNCHANGED <<orb_pos, orb_vel, orb_mass, orb_num_objects, orb_cinds, orb_offset,
                   orb_G, orb_dt, orb_scale, body_colors, line_colors, show_paths,
                   orbital_prev, timer_active, pause_text, paint_pending,
                   popups, place_new_body, new_obj_vel, new_obj_mass, frame_pos,
                   frame_offset, orb_steps, notOrbit>>

(***************************************************************************)
(* imgur_pic_downloader.py: the album downloader.  A text is the list of   *)
(* its characters.  The network, the file system and the user are the      *)
(* environment: what a server answers and what the user types are chosen   *)
(* by the action that asks, and every request, prompt, directory creation  *)
(* and file write is appended to im_effects as <<operation, text, text>>.  *)
(* The console output other than the prompts is left out.                  *)
(***************************************************************************)
\* text.index(sub): the 0-based place of the first occurrence of sub in a
\* text that holds it.
str_index(text, sub) ==
    CHOOSE i \in 0..(Len(text) - Len(sub)) :
        /\ SubSeq(text, i + 1, i + Len(sub)) = sub
        /\ \A j \in 0..(i - 1) : SubSeq(text, j + 1, j + Len(sub)) # sub

\* text[start:-4] and text[-4:] of a text of four characters or more
slice_to_last_four(text, start) == SubSeq(text, start + 1, Len(text) - 4)

last_four(text) == SubSeq(text, Len(text) - 3, Len(text))

\* os.path.join(path, name) with the separator '/'
path_join(path, name) ==
    IF name # <<>> /\ name[1] = "/"
    THEN name
    ELSE IF path = <<>> \/ path[Len(path)] = "/"
         THEN path \o name
         ELSE path \o <<"/">> \o name

INI_FILE ==
    <<"i", "m", "g", "u", "r", "_", "a", "p", "i", "_", "i", "n", "f", "o",
      ".", "i", "n", "i">>

IMGUR_COM ==
    <<"i", "m", "g", "u", "r", ".", "c", "o", "m", "/">>

\* Line 92: 'https://api.imgur.com/3/album/{}/images'.format(album_hash)
album_url(album_hash) ==
    <<"h", "t", "t", "p", "s", ":", "/", "/", "a", "p", "i", ".", "i", "m",
      "g", "u", "r", ".", "c", "o", "m", "/", "3", "/", "a", "l", "b", "u",
      "m", "/">>
    \o album_hash \o
    <<"/", "i", "m", "a", "g", "e", "s">>

\* Line 95: 'Bearer {}'.format(info['access_token'])
bearer(access_token) ==
    <<"B", "e", "a", "r", "e", "r", " ">>
    \o access_token

\* Line 37: 'https://imgur.com/a/' + album_hash + '?grid'
grid_url(album_hash) ==
    <<"h", "t", "t", "p", "s", ":", "/", "/", "i", "m", "g", "u", "r", ".",
      "c", "o", "m", "/", "a", "/">>
    \o album_hash \o
    <<"?", "g", "r", "i", "d">>

\* Lines 125 and 142: 'https://i.imgur.com/{}{}'.format(*img)
download_url(img) ==
    <<"h", "t", "t", "p", "s", ":", "/", "/", "i", ".", "i", "m", "g", "u",
      "r", ".", "c", "o", "m", "/">>
    \o img[1] \o img[2]

CREDITS_URL ==
    <<"h", "t", "t", "p", "s", ":", "/", "/", "a", "p", "i", ".", "i", "m",
      "g", "u", "r", ".", "c", "o", "m", "/", "3", "/", "c", "r", "e", "d",
      "i", "t", "s">>

TOKEN_URL ==
    <<"h", "t", "t", "p", "s", ":", "/", "/", "a", "p", "i", ".", "i", "m",
      "g", "u", "r", ".", "c", "o", "m", "/", "o", "a", "u", "t", "h", "2",
      "/", "t", "o", "k", "e", "n">>

\* The directories, the albums and the images of the model.
DirD == <<"d">>

DirE == <<"e">>

JPG == <<".", "j", "p", "g">>

PNG == <<".", "p", "n", "g">>

AlbumA == <<"a">>

AlbumB == <<"b">>

\* The images the server holds for an album, as (hash, ext).
ServerImages(album_hash) ==
    IF album_hash = AlbumA
    THEN <<<<<<"x">>, JPG>>, <<<<"y", "2">>, PNG>>>>
    ELSE <<<<<<"z">>, JPG>>>>

\* The 'data' of the API's answer: one item per image, with its link.
api_data(album_hash) ==
    LET imgs == ServerImages(album_hash)
    IN  [k \in 1..Len(imgs) |-> [link |-> download_url(imgs[k])]]

\* The list of dicts under 'album_images' in the page of the album.
album_images(album_hash) ==
    LET imgs == ServerImages(album_hash)
    IN  [k \in 1..Len(imgs) |->
            [hash |-> imgs[k][1], ext |-> imgs[k][2], title |-> "None"]]

\* What the API answers to the album request: the images, no answer at all
\* (requests raises ConnectionError, an IOError), a body without 'data', or
\* status 403 with an error dict as 'data'.
ApiAnswers == {"ok", "unreachable", "no_data", "forbidden"}

\* What imgur.com answers to the page request: a page with 'album_images'
\* or one without.
PageAnswers == {"ok", "no_album_images"}

\* The configuration files of the model: none, one without [GENERAL], one
\* with the access token only, one with the four keys.
OLD_TOKEN == <<"o", "l", "d">>

NEW_TOKEN == <<"n", "e", "w">>

IniKeys == {"access_token", "refresh_token", "client_id", "client_secret"}

NoIni == [exists |-> FALSE, section |-> FALSE, keys |-> {}, access_token |-> <<>>]

IniFiles ==
    {NoIni,
     [exists |-> TRUE, section |-> FALSE, keys |-> {}, access_token |-> <<>>],
     [exists |-> TRUE, section |-> TRUE, keys |-> {"access_token"},
      access_token |-> OLD_TOKEN],
     [exists |-> TRUE, section |-> TRUE, keys |-> IniKeys,
      access_token |-> OLD_TOKEN]}

\* _get_image_hashes(album_hash): the page is requested, the list after
\* 'album_images' is read, and (hash, ext) is taken from each dict.
\* str.index raises ValueError on a page without 'album_images'.
get_image_hashes(album_hash, page) ==
    LET request == <<"requests.get", grid_url(album_hash), <<>>>>
        img_list_dicts == album_images(album_hash)
    IN  IF page = "no_album_images"
        THEN [exc |-> "ValueError", effects |-> <<request>>, img_list |-> <<>>]
        ELSE [exc |-> "None", effects |-> <<request>>,
              img_list |-> [k \in 1..Len(img_list_dicts) |->
                               <<img_list_dicts[k].hash, img_list_dicts[k].ext>>]]

\* Lines 100-101: (link[link.index('imgur.com/') + len('imgur.com/'):-4],
\* link[-4:])
img_of_link(link) ==
    <<slice_to_last_four(link, str_index(link, IMGUR_COM) + Len(IMGUR_COM)),
      last_four(link)>>

\* A variant of _get_album_info that sends the request before it looks for
\* the .ini file.
get_album_info_request_first(ini, album_hash, answer) ==
    LET request == <<"requests.get", album_url(album_hash), bearer(ini.access_token)>>
        data == api_data(album_hash)
        failed(exc) == [exc |-> exc, effects |-> <<request>>, img_list |-> <<>>]
    IN  IF ~ini.exists
        THEN failed("IOError")
        ELSE IF ~ini.section \/ "access_token" \notin ini.keys
             THEN failed("KeyError")
             ELSE CASE answer = "unreachable" -> failed("IOError")
                    [] answer = "no_data" -> failed("KeyError")
                    [] answer = "forbidden" -> failed("TypeError")
                    [] OTHER ->
                         [exc |-> "None", effects |-> <<request>>,
                          img_list |-> [k \in 1..Len(data) |-> img_of_link(data[k].link)]]

\* _get_album_info(album_hash) with the file ini and the API's answer.
get_album_info(ini, album_hash, answer) ==
    LET request == <<"requests.get", album_url(album_hash), bearer(ini.access_token)>>
        data == api_data(album_hash)
        failed(exc, effects) == [exc |-> exc, effects |-> effects, img_list |-> <<>>]
    IN  IF ~ini.exists
        THEN failed("IOError", <<>>)
        ELSE IF ~ini.section \/ "access_token" \notin ini.keys
             THEN failed("KeyError", <<>>)
             ELSE CASE answer = "unreachable" -> failed("IOError", <<request>>)
                    [] answer = "no_data" -> failed("KeyError", <<request>>)
                    [] answer = "forbidden" -> failed("TypeError", <<request>>)
                    [] OTHER ->
                         [exc |-> "None", effects |-> <<request>>,
                          img_list |-> [k \in 1..Len(data) |-> img_of_link(data[k].link)]]

\* download.lower() of what the user types
str_lower(typed) == [k \in 1..Len(typed) |-> lower(typed[k])]

YesWords ==
    {<<"y", "e", "s">>, <<"y">>, <<"y", "e", "a", "h">>,
     <<"y", "u", "p">>, <<"y", "e", "a">>}

NoWords ==
    {<<"n", "o">>, <<"n">>, <<"n", "o", "p", "e">>,
     <<"o", "h", " ", "g", "o", "d", " ", "n", "o">>}

\* _check_with_user: asks until the answer is one of the accepted words;
\* 'no' is compared as typed, 'yes' in lower case.  typed is what the user
\* types, prompt after prompt.
RECURSIVE check_with_user(_)
check_with_user(typed) ==
    LET download == Head(typed)
    IN  IF str_lower(download) \in YesWords
        THEN [result |-> TRUE, prompts |-> 1]
        ELSE IF download \in NoWords
             THEN [result |-> FALSE, prompts |-> 1]
             ELSE LET again == check_with_user(Tail(typed))
                  IN  [result |-> again.result, prompts |-> again.prompts + 1]

\* What the user types at a prompt, up to an accepted answer.
Typed ==
    {<<<<"y", "e", "s">>>>, <<<<"n">>>>, <<<<"N", "O">>, <<"Y">>>>}

\* The prompts of one _check_with_user(string, img_dir).
prompts_of(string, img_dir, times) ==
    [k \in 1..times |-> <<"input", <<string>>, img_dir>>]

\* _do_download(img, download_url, img_dir): the url and the file.
do_download(img, img_dir) ==
    <<"urlretrieve", download_url(img), path_join(img_dir, img[1]) \o img[2]>>

\* download_images(img_list, img_dir, show_progress_bar).  With the bar,
\* each image is retrieved in turn (a retrieval into a directory that does
\* not exist raises FileNotFoundError after the request); without it,
\* enumerate(len(img_list)) raises TypeError before any download.
download_images(img_list, img_dir, show_progress_bar, dirs) ==
    IF show_progress_bar
    THEN IF img_dir \in dirs
         THEN [exc |-> "None",
               effects |-> [k \in 1..Len(img_list) |-> do_download(img_list[k], img_dir)],
               files |-> {<<img_dir, img_list[k][1] \o img_list[k][2]>> :
                             k \in 1..Len(img_list)}]
         ELSE IF img_list = <<>>
              THEN [exc |-> "None", effects |-> <<>>, files |-> {}]
              ELSE [exc |-> "FileNotFoundError",
                    effects |-> <<do_download(img_list[1], img_dir)>>,
                    files |-> {}]
    ELSE [exc |-> "TypeError", effects |-> <<>>, files |-> {}]

\* check_token() with the file ini and the status of the credits request.
\* The refresh request is taken to succeed with NEW_TOKEN.
check_token(ini, status) ==
    LET credits == <<"requests.get", CREDITS_URL, bearer(ini.access_token)>>
        refresh == <<"requests.post", TOKEN_URL, <<"refresh_token">>>>
        write == <<"write", INI_FILE, NEW_TOKEN>>
    IN  IF ~ini.exists
        THEN [exc |-> "IOError", effects |-> <<>>, ini |-> ini]
        ELSE IF ~ini.section \/ "access_token" \notin ini.keys
             THEN [exc |-> "KeyError", effects |-> <<>>, ini |-> ini]
             ELSE IF status # 403
                  THEN [exc |-> "None", effects |-> <<credits>>, ini |-> ini]
                  ELSE IF ~(IniKeys \subseteq ini.keys)
                       THEN [exc |-> "KeyError", effects |-> <<credits>>, ini |-> ini]
                       ELSE [exc |-> "None", effects |-> <<credits, refresh, write>>,
                             ini |-> [ini EXCEPT !.access_token = NEW_TOKEN]]

\* The arguments of download_hashes in the model.  A str argument s is held
\* as <<s>> under the type "str".
HashArgs ==
    {[type |-> "str", value |-> <<AlbumA>>],
     [type |-> "list", value |-> <<AlbumA, AlbumB>>],
     [type |-> "list", value |-> <<>>]}

DirArgs ==
    {[type |-> "str", value |-> <<DirD>>],
     [type |-> "list", value |-> <<DirD>>],
     [type |-> "list", value |-> <<DirD, DirE>>],
     [type |-> "list", value |-> <<DirE, DirD>>]}

\* The arguments of download_images in the model.
ImgLists == {<<>>, ServerImages(AlbumA)}

\* Lines 251-254: a str becomes a list of itself, a str directory one entry
\* per album.
hashes_as_list(album_hashes) == album_hashes.value

dirs_as_list(img_dirs, album_hashes) ==
    IF img_dirs.type = "str"
    THEN [k \in 1..Len(album_hashes) |-> img_dirs.value[1]]
    ELSE img_dirs.value

\* After an album: the next one, or the end of download_hashes.
next_album(n) == IF n + 1 < Len(im_album_hashes) THEN "album" ELSE "returned"

\* A variant of the start of download_hashes without the check of lines
\* 255-258.
download_hashes_unchecked(album_hashes, img_dirs, force_check_exist, force_check_empty) ==
    /\ im_pc = "start"
    /\ im_entry' = "download_hashes"
    /\ im_args' = [album_hashes |-> album_hashes, img_dirs |-> img_dirs]
    /\ im_album_hashes' = hashes_as_list(album_hashes)
    /\ im_img_dirs' = dirs_as_list(img_dirs, hashes_as_list(album_hashes))
    /\ im_force_check_exist' = force_check_exist
    /\ im_force_check_empty' = force_check_empty
    /\ im_pc' = "check_token"
    /\ UNCHANGED <<im_exc, im_ini, im_dirs, im_files, im_effects, im_n, im_img_list>>
    /\ UNCHANGED notImgur

\* download_hashes, lines 251-258: the arguments are made lists, and lists
\* of different lengths raise Exception.
download_hashes(album_hashes, img_dirs, force_check_exist, force_check_empty) ==
    LET hashes == hashes_as_list(album_hashes)
        dirs == dirs_as_list(img_dirs, hashes)
    IN  /\ im_pc = "start"
        /\ im_entry' = "download_hashes"
        /\ im_args' = [album_hashes |-> album_hashes, img_dirs |-> img_dirs]
        /\ im_album_hashes' = hashes
        /\ im_img_dirs' = dirs
        /\ im_force_check_exist' = force_check_exist
        /\ im_force_check_empty' = force_check_empty
        /\ IF Len(hashes) # Len(dirs)
           THEN im_pc' = "raised" /\ im_exc' = "Exception"
           ELSE im_pc' = "check_token" /\ im_exc' = im_exc
        /\ UNCHANGED <<im_ini, im_dirs, im_files, im_effects, im_n, im_img_list>>
        /\ UNCHANGED notImgur

\* download_hashes, line 261: check_token(); an exception of it ends the
\* call.
check_token_call ==
    /\ im_pc = "check_token"
    /\ \E status \in {200, 403} :
          LET done == check_token(im_ini, status)
          IN  /\ im_effects' = im_effects \o done.effects
              /\ im_ini' = done.ini
              /\ IF done.exc # "None"
                 THEN im_pc' = "raised" /\ im_exc' = done.exc
                 ELSE /\ im_pc' = IF im_album_hashes = <<>> THEN "returned" ELSE "album"
                      /\ im_exc' = im_exc
    /\ UNCHANGED <<im_entry, im_args, im_dirs, im_files, im_album_hashes, im_img_dirs,
                   im_force_check_exist, im_force_check_empty, im_n, im_img_list>>
    /\ UNCHANGED notImgur

\* A variant of make_directory in which a declined question ends the loop
\* (a break where line 278 has continue).
make_directory_decline_ends ==
    LET img_dir == At(im_img_dirs, im_n)
        listed == {f \in im_files : f[1] = At(im_img_dirs, 0)}
    IN  /\ im_pc = "album"
        /\ IF img_dir \notin im_dirs
           THEN /\ im_dirs' = im_dirs \cup {img_dir}
                /\ im_effects' = Append(im_effects, <<"os.makedirs", img_dir, <<>>>>)
                /\ im_pc' = "fetch"
                /\ UNCHANGED im_n
           ELSE \E typed_exist \in Typed, typed_empty \in Typed :
                   LET exist == IF im_force_check_exist
                                THEN check_with_user(typed_exist)
                                ELSE [result |-> TRUE, prompts |-> 0]
                       ask_empty == im_force_check_empty /\ exist.result /\ listed # {}
                       empty == IF ask_empty
                                THEN check_with_user(typed_empty)
                                ELSE [result |-> exist.result, prompts |-> 0]
                       continue_dl == empty.result
                   IN  /\ im_effects' =
                             Append(im_effects, <<"os.makedirs", img_dir, <<>>>>)
                                \o prompts_of("already exists", img_dir, exist.prompts)
                                \o prompts_of("is nonempty", img_dir, empty.prompts)
                       /\ IF continue_dl
                          THEN im_pc' = "fetch" /\ im_n' = im_n
                          ELSE im_pc' = "returned" /\ im_n' = im_n + 1
                       /\ UNCHANGED im_dirs
        /\ UNCHANGED <<im_entry, im_args, im_exc, im_ini, im_files, im_album_hashes,
                       im_img_dirs, im_force_check_exist, im_force_check_empty,
                       im_img_list>>
        /\ UNCHANGED notImgur

\* download_hashes, lines 264-278, for the album n: the directory is made,
\* or it exists and the user is asked as the two flags say; the second
\* question looks at os.listdir(img_dirs[0]).
make_directory ==
    LET img_dir == At(im_img_dirs, im_n)
        listed == {f \in im_files : f[1] = At(im_img_dirs, 0)}
    IN  /\ im_pc = "album"
        /\ IF img_dir \notin im_dirs
           THEN /\ im_dirs' = im_dirs \cup {img_dir}
                /\ im_effects' = Append(im_effects, <<"os.makedirs", img_dir, <<>>>>)
                /\ im_pc' = "fetch"
                /\ UNCHANGED im_n
           ELSE \E typed_exist \in Typed, typed_empty \in Typed :
                   LET exist == IF im_force_check_exist
                                THEN check_with_user(typed_exist)
                                ELSE [result |-> TRUE, prompts |-> 0]
                       ask_empty == im_force_check_empty /\ exist.result /\ listed # {}
                       empty == IF ask_empty
                                THEN check_with_user(typed_empty)
                                ELSE [result |-> exist.result, prompts |-> 0]
                       continue_dl == empty.result
                   IN  /\ im_effects' =
                             Append(im_effects, <<"os.makedirs", img_dir, <<>>>>)
                                \o prompts_of("already exists", img_dir, exist.prompts)
                                \o prompts_of("is nonempty", img_dir, empty.prompts)
                       /\ IF continue_dl
                          THEN im_pc' = "fetch" /\ im_n' = im_n
                          ELSE im_pc' = next_album(im_n) /\ im_n' = im_n + 1
                       /\ UNCHANGED im_dirs
        /\ UNCHANGED <<im_entry, im_args, im_exc, im_ini, im_files, im_album_hashes,
                       im_img_dirs, im_force_check_exist, im_force_check_empty,
                       im_img_list>>
        /\ UNCHANGED notImgur

\* download_hashes, lines 280-291, for the album n: _get_album_info, and
\* _get_image_hashes when it raises IOError or KeyError.
fetch_images ==
    LET album_hash == At(im_album_hashes, im_n)
    IN  /\ im_pc = "fetch"
        /\ \E answer \in ApiAnswers, page \in PageAnswers :
              LET api == get_album_info(im_ini, album_hash, answer)
                  html == get_image_hashes(album_hash, page)
                  fallback == api.exc \in {"IOError", "KeyError"}
                  exc == IF fallback THEN html.exc ELSE api.exc
              IN  /\ im_effects' =
                        im_effects \o api.effects \o (IF fallback THEN html.effects ELSE <<>>)
                  /\ im_img_list' = IF fallback THEN html.img_list ELSE api.img_list
                  /\ IF exc # "None"
                     THEN im_pc' = "raised" /\ im_exc' = exc
                     ELSE im_pc' = "download" /\ im_exc' = im_exc
        /\ UNCHANGED <<im_entry, im_args, im_ini, im_dirs, im_files, im_album_hashes,
                       im_img_dirs, im_force_check_exist, im_force_check_empty, im_n>>
        /\ UNCHANGED notImgur

\* download_hashes, lines 293-297, for the album n:
\* download_images(img_list, img_dirs[n], bar_len=50), then the next album.
download_album ==
    LET done == download_images(im_img_list, At(im_img_dirs, im_n), TRUE, im_dirs)
    IN  /\ im_pc = "download"
        /\ im_effects' = im_effects \o done.effects
        /\ im_files' = im_files \cup done.files
        /\ IF done.exc # "None"
           THEN im_pc' = "raised" /\ im_exc' = done.exc /\ im_n' = im_n
           ELSE im_pc' = next_album(im_n) /\ im_exc' = im_exc /\ im_n' = im_n + 1
        /\ UNCHANGED <<im_entry, im_args, im_ini, im_dirs, im_album_hashes, im_img_dirs,
                       im_force_check_exist, im_force_check_empty, im_img_list>>
        /\ UNCHANGED notImgur

\* download_images(img_list, img_dir, show_progress_bar) called by itself.
download_images_call(img_list, img_dir, show_progress_bar) ==
    LET done == download_images(img_list, img_dir, show_progress_bar, im_dirs)
    IN  /\ im_pc = "start"
        /\ im_entry' = "download_images"
        /\ im_args' = [img_list |-> img_list, img_dir |-> img_dir,
                       show_progress_bar |-> show_progress_bar]
        /\ im_effects' = im_effects \o done.effects
        /\ im_files' = im_files \cup done.files
        /\ IF done.exc # "None"
           THEN im_pc' = "raised" /\ im_exc' = done.exc
           ELSE im_pc' = "returned" /\ im_exc' = im_exc
        /\ UNCHANGED <<im_ini, im_dirs, im_album_hashes, im_img_dirs,
                       im_force_check_exist, im_force_check_empty, im_n, im_img_list>>
        /\ UNCHANGED notImgur

\* _get_album_info(album_hash) called by itself.
get_album_info_call(album_hash) ==
    /\ im_pc = "start"
    /\ \E answer \in ApiAnswers :
          LET done == get_album_info(im_ini, album_hash, answer)
          IN  /\ im_effects' = im_effects \o done.effects
              /\ im_img_list' = done.img_list
              /\ IF done.exc # "None"
                 THEN im_pc' = "raised" /\ im_exc' = done.exc
                 ELSE im_pc' = "returned" /\ im_exc' = im_exc
    /\ im_entry' = "_get_album_info"
    /\ im_args' = [album_hash |-> album_hash]
    /\ UNCHANGED <<im_ini, im_dirs, im_files, im_album_hashes, im_img_dirs,
                   im_force_check_exist, im_force_check_empty, im_n>>
    /\ UNCHANGED notImgur

(***************************************************************************)
(* bftree.py: make_tree, the display of an array as a breadth-first tree.  *)
(* A row is the list of its characters; the array holds integers.          *)
(***************************************************************************)
\* max(tree) of a non-empty array
max(t) == CHOOSE v \in ToSet(t) : \A w \in ToSet(t) : w <= v

\* Lines 90-92: the digits of the largest number, made odd.
num_digits_of(t) ==
    LET num_digits == Len(str(max(t)))
    IN  IF num_digits % 2 = 0 THEN num_digits + 1 ELSE num_digits

\* Lines 95-100 with `i <= len(tree)` for the test of the loop.
RECURSIVE levels_loop_inclusive(_, _, _, _)
levels_loop_inclusive(i, levels, length, branch_factor) ==
    IF i <= length
    THEN levels_loop_inclusive(i + Pow(branch_factor, levels), levels + 1, length,
                               branch_factor)
    ELSE levels

levels_of_inclusive(t, branch_factor) ==
    levels_loop_inclusive(0, 0, Len(t), branch_factor)

\* Lines 95-100: while i < len(tree): i += branch_factor**levels; levels += 1
RECURSIVE levels_loop(_, _, _, _)
levels_loop(i, levels, length, branch_factor) ==
    IF i < length
    THEN levels_loop(i + Pow(branch_factor, levels), levels + 1, length, branch_factor)
    ELSE levels

levels_of(t, branch_factor) == levels_loop(0, 0, Len(t), branch_factor)

\* sum([branch_factor**r for r in range(row_num)])
RECURSIVE nodes_above(_, _)
nodes_above(branch_factor, row_num) ==
    IF row_num = 0
    THEN 0
    ELSE nodes_above(branch_factor, row_num - 1) + Pow(branch_factor, row_num - 1)

\* text.rjust(width)
rjust(text, width) ==
    IF Len(text) >= width THEN text ELSE Repeat(" ", width - Len(text)) \o text

\* Line 103: max_spaces
max_spaces_of(t, branch_factor) ==
    Pow(branch_factor, levels_of(t, branch_factor) - 1) * (num_digits_of(t) + 1)

\* A variant of node_row that fills a row from its last node to its first.
node_row_right_to_left(t, branch_factor, filler, row_num) ==
    LET num_digits == num_digits_of(t)
        row_len == Pow(branch_factor, row_num)
        num_nodes == nodes_above(branch_factor, row_num) + row_len
        column_iter == IF Len(t) < num_nodes
                       THEN Len(t) + row_len - num_nodes
                       ELSE row_len
        num_spaces == row_len * (num_digits + 1)
        num_extra_spaces == max_spaces_of(t, branch_factor) - num_spaces
        num_spaces_per_node == num_extra_spaces \div (2 * row_len)
        spaces_per_node == join(Repeat(filler, num_spaces_per_node))
        node(num) ==
            LET shift == (column_iter - 1 - num) + nodes_above(branch_factor, row_num)
            IN  <<"|">> \o spaces_per_node \o rjust(str(At(t, shift)), num_digits)
                    \o spaces_per_node
    IN  join([k \in 1..column_iter |-> node(k - 1)]) \o <<"|">>

\* Lines 114-135: the row of the nodes of the level row_num.
node_row(t, branch_factor, filler, row_num) ==
    LET num_digits == num_digits_of(t)
        row_len == Pow(branch_factor, row_num)
        num_nodes == nodes_above(branch_factor, row_num) + row_len
        column_iter == IF Len(t) < num_nodes
                       THEN Len(t) + row_len - num_nodes
                       ELSE row_len
        num_spaces == row_len * (num_digits + 1)
        num_extra_spaces == max_spaces_of(t, branch_factor) - num_spaces
        num_spaces_per_node == num_extra_spaces \div (2 * row_len)
        spaces_per_node == join(Repeat(filler, num_spaces_per_node))
        node(num) ==
            LET shift == num + nodes_above(branch_factor, row_num)
            IN  <<"|">> \o spaces_per_node \o rjust(str(At(t, shift)), num_digits)
                    \o spaces_per_node
    IN  join([k \in 1..column_iter |-> node(k - 1)]) \o <<"|">>

\* A variant of the first row of the cage that is max_spaces wide.
top_cage_max_spaces_wide(t, branch_factor) ==
    <<"+">> \o Repeat("-", max_spaces_of(t, branch_factor) - 2) \o <<"+">>

\* Lines 106-111 and 143-148: the rows of the cage.
top_cage(t, branch_factor) ==
    <<"+">> \o Repeat("-", max_spaces_of(t, branch_factor) - 1) \o <<"+">>

cage_under(row) == <<"+">> \o Repeat("-", Len(row) - 2) \o <<"+">>

\* The rows of make_tree in their order: the top of the cage, then each row
\* of nodes with the cage under it.
tree_rows(t, branch_factor, filler, cage) ==
    LET levels == levels_of(t, branch_factor)
        level_rows(row_num) ==
            LET row == node_row(t, branch_factor, filler, row_num)
            IN  IF cage THEN <<row, cage_under(row)>> ELSE <<row>>
    IN  (IF cage THEN <<top_cage(t, branch_factor)>> ELSE <<>>)
            \o join([k \in 1..levels |-> level_rows(k - 1)])

\* The arrays of the model: length numbers, the last of them top.
tree_of(length, top) == [k \in 1..length |-> IF k = length THEN top ELSE k % 10]

TreeTops == {7, 42, 100, -100}

Fillers == {<<" ">>, <<".">>}

\* make_tree(tree, branch_factor, filler, cage, return_as_list, print_out).
\* max([]) raises ValueError; the rows go to the console when print_out is
\* set and are returned when return_as_list is set (None otherwise, which
\* the model holds as the empty list).
make_tree ==
    /\ tr_pc = "called"
    /\ IF tr_tree = <<>>
       THEN /\ tr_pc' = "ValueError"
            /\ UNCHANGED <<tr_printed, tr_returned>>
       ELSE LET rows == tree_rows(tr_tree, tr_branch_factor, tr_options.filler,
                                  tr_options.cage)
            IN  /\ tr_printed' = IF tr_options.print_out THEN rows ELSE <<>>
                /\ tr_returned' = IF tr_options.return_as_list THEN rows ELSE <<>>
                /\ tr_pc' = "returned"
    /\ UNCHANGED <<tr_tree, tr_branch_factor, tr_options>>
    /\ UNCHANGED notTree

(***************************************************************************)
(* The specifications.  Each script runs on its own: its specification     *)
(* starts the other scripts idle and never moves them.                     *)
(***************************************************************************)
HeapIdle ==
    /\ heap = <<>>
    /\ heap_in = <<>>
    /\ heap_op = "none"
    /\ heap_status = "idle"

RegionsIdle ==
    /\ grid = <<>>
    /\ regions_out = <<>>
    /\ regions_pc = "idle"

FourIdle ==
    /\ four_num = 0
    /\ four_i = 0
    /\ max_num_four = 0
    /\ max_fours = <<>>
    /\ four_pc = "idle"

ConvIdle ==
    /\ conv_n = 0
    /\ conv_b = 0
    /\ conv_d = <<>>
    /\ conv_pc = "idle"

CypherIdle ==
    /\ cy_words = <<>>
    /\ cy_cyph_nums = <<>>
    /\ cy_sum_num = <<>>
    /\ cy_new_word = <<>>
    /\ cy_err = <<>>
    /\ cy_pc = "idle"

OrbitIdle ==
    /\ orb_pos = <<>>
    /\ orb_vel = <<>>
    /\ orb_mass = <<>>
    /\ orb_num_objects = 0
    /\ orb_cinds = <<>>
    /\ orb_offset = <<>>
    /\ orb_G = <<0, 1>>
    /\ orb_dt = <<0, 1>>
    /\ orb_scale = <<0, 1>>
    /\ orb_acc = <<>>
    /\ body_colors = <<>>
    /\ line_colors = <<>>
    /\ show_paths = <<>>
    /\ orbital_prev = <<>>
    /\ timer_active = FALSE
    /\ pause_text = ""
    /\ paint_pending = FALSE
    /\ popups = {}
    /\ place_new_body = FALSE
    /\ new_obj_vel = <<>>
    /\ new_obj_mass = <<>>
    /\ frame_pos = <<>>
    /\ frame_offset = <<>>
    /\ orb_steps = 0
    /\ orb_status = "idle"

ImgurIdle ==
    /\ im_entry = ""
    /\ im_args = <<>>
    /\ im_pc = "idle"
    /\ im_exc = "None"
    /\ im_ini = NoIni
    /\ im_dirs = {}
    /\ im_files = {}
    /\ im_effects = <<>>
    /\ im_album_hashes = <<>>
    /\ im_img_dirs = <<>>
    /\ im_force_check_exist = FALSE
    /\ im_force_check_empty = FALSE
    /\ im_n = 0
    /\ im_img_list = <<>>

TreeIdle ==
    /\ tr_tree = <<>>
    /\ tr_branch_factor = 0
    /\ tr_options = <<>>
    /\ tr_printed = <<>>
    /\ tr_returned = <<>>
    /\ tr_pc = "idle"

InitSiftUp ==
    HeapIdle /\ RegionsIdle /\ FourIdle /\ ConvIdle /\ CypherIdle /\ OrbitIdle /\ ImgurIdle /\ TreeIdle

NextSiftUp == \E num \in HeapValues : move_up(num)

InitSiftDown ==
    /\ heap \in HeapArrays
    /\ heap_in = heap
    /\ heap_op = "none"
    /\ heap_status = "idle"
    /\ RegionsIdle
    /\ FourIdle
    /\ ConvIdle
    /\ CypherIdle
    /\ OrbitIdle /\ ImgurIdle /\ TreeIdle

NextSiftDown == move_down

SpecSiftUp == InitSiftUp /\ [][NextSiftUp]_vars

SpecSiftDown == InitSiftDown /\ [][NextSiftDown]_vars

\* move_down run turn by turn.  The interpreter runs the next statement of
\* a call in progress, so both steps are weakly fair.
NextSiftDownLive == move_down_enter \/ move_down_iterate

SpecSiftDownLive ==
    /\ InitSiftDown
    /\ [][NextSiftDownLive]_vars
    /\ WF_vars(move_down_enter)
    /\ WF_vars(move_down_iterate)

InitRegions ==
    /\ grid \in Grids
    /\ regions_out = <<>>
    /\ regions_pc = "start"
    /\ HeapIdle
    /\ FourIdle
    /\ ConvIdle
    /\ CypherIdle
    /\ OrbitIdle /\ ImgurIdle /\ TreeIdle

NextRegions == find_regions

SpecRegions == InitRegions /\ [][NextRegions]_vars

\* fouriest_find(num): lines 77-78, before the loop starts at base 2.
InitFouriest ==
    /\ four_num \in (0..MaxNum) \cup {DocNum}
    /\ four_i = 2
    /\ max_num_four = 0
    /\ max_fours = <<>>
    /\ four_pc = "loop"
    /\ ConvIdle
    /\ HeapIdle
    /\ RegionsIdle
    /\ CypherIdle
    /\ OrbitIdle /\ ImgurIdle /\ TreeIdle

NextFouriest == fouriest_iter \/ fouriest_return

SpecFouriest == InitFouriest /\ [][NextFouriest]_vars

InitConvert ==
    /\ conv_n \in 0..MaxN
    /\ conv_b \in 1..MaxB
    /\ conv_d = <<>>
    /\ conv_pc = "start"
    /\ FourIdle
    /\ HeapIdle
    /\ RegionsIdle
    /\ CypherIdle
    /\ OrbitIdle /\ ImgurIdle /\ TreeIdle

NextConvert == convert

SpecConvert == InitConvert /\ [][NextConvert]_vars

\* calc_every_comb has taken a combination of words.
InitCypher ==
    /\ cy_words \in CyGroups
    /\ cy_cyph_nums = <<>>
    /\ cy_sum_num = <<>>
    /\ cy_new_word = <<>>
    /\ cy_err = <<>>
    /\ cy_pc = "start"
    /\ HeapIdle
    /\ RegionsIdle
    /\ FourIdle
    /\ ConvIdle
    /\ OrbitIdle /\ ImgurIdle /\ TreeIdle

NextCypher == encode_words \/ sum_codes \/ decode_sum \/ decode_code

SpecCypher == InitCypher /\ [][NextCypher]_vars

\* Orbit.__init__(objs, G, dt), lines 113-144.
OrbitConstructed(objs, G, dt) ==
    /\ orb_G = G
    /\ orb_dt = dt
    /\ orb_offset = <<<<0, 1>>, <<0, 1>>>>
    /\ orb_cinds = cinds_of(objs)
    /\ orb_pos = [k \in 1..Len(objs) |-> objs[k].pos]
    /\ orb_vel = [k \in 1..Len(objs) |-> objs[k].vel]
    /\ orb_mass = [k \in 1..Len(objs) |-> objs[k].mass]
    /\ orb_num_objects = Len(objs)
    /\ orb_acc = <<>>
    /\ orb_steps = 0

\* Window(objs) with G = 1 and dt = 1, and window.show(): Picture.__init__
\* fills the colours in, builds the Foreground (and its Orbit) and starts the
\* timer; showing the window asks for the first paint event.
InitOrbit ==
    /\ \E scene \in OrbitScenes :
          LET objs == fill_colors(scene, "black")
          IN  /\ OrbitConstructed(objs, <<1, 1>>, <<1, 1>>)
              /\ orb_scale = scale_of([k \in 1..Len(objs) |-> objs[k].pos])
              /\ body_colors = [k \in 1..Len(objs) |-> objs[k].body_color]
              /\ line_colors = [k \in 1..Len(objs) |-> objs[k].line_color]
              /\ show_paths = [k \in 1..Len(objs) |-> objs[k].show_path]
    /\ orbital_prev = <<>>
    /\ timer_active = TRUE
    /\ pause_text = "Pause Simulation"
    /\ paint_pending = TRUE
    /\ popups = {}
    /\ place_new_body = FALSE
    /\ new_obj_vel = <<>>
    /\ new_obj_mass = <<>>
    /\ frame_pos = <<>>
    /\ frame_offset = <<>>
    /\ orb_status = "running"
    /\ HeapIdle
    /\ RegionsIdle
    /\ FourIdle
    /\ ConvIdle
    /\ CypherIdle
    /\ ImgurIdle
    /\ TreeIdle

NextOrbit ==
    \/ paintEvent
    \/ multi_update
    \/ toggle_pause
    \/ \E attr \in {"dt", "G", "add"} : show_popup(attr)
    \/ \E typed \in ValueTexts : change_value_accept(typed[1], typed[2])
    \/ \E velx \in VelXTexts, vely \in VelYTexts, mass_text \in MassTexts :
          add_body_accept(velx, vely, mass_text)
    \/ \E px \in ClickXs, py \in ClickYs : mousePressEvent(px, py)

SpecOrbit == InitOrbit /\ [][NextOrbit]_vars

\* Orbit(objs, G, dt) built by itself, for G = 1 or 2.
InitAcc ==
    /\ \E scene \in AccScenes, g \in {1, 2} :
          /\ OrbitConstructed(scene, <<g, 1>>, <<1, 1>>)
          /\ orb_scale = <<0, 1>>
    /\ body_colors = <<>>
    /\ line_colors = <<>>
    /\ show_paths = <<>>
    /\ orbital_prev = <<>>
    /\ timer_active = FALSE
    /\ pause_text = ""
    /\ paint_pending = FALSE
    /\ popups = {}
    /\ place_new_body = FALSE
    /\ new_obj_vel = <<>>
    /\ new_obj_mass = <<>>
    /\ frame_pos = <<>>
    /\ frame_offset = <<>>
    /\ orb_status = "constructed"
    /\ HeapIdle
    /\ RegionsIdle
    /\ FourIdle
    /\ ConvIdle
    /\ CypherIdle
    /\ ImgurIdle
    /\ TreeIdle

NextAcc == find_new_acc_call

SpecAcc == InitAcc /\ [][NextAcc]_vars

\* Before a call of the downloader: some .ini file or none, some of the
\* directories, each empty or holding one file.
InitImgur ==
    /\ im_entry = ""
    /\ im_args = <<>>
    /\ im_pc = "start"
    /\ im_exc = "None"
    /\ im_ini \in IniFiles
    /\ im_dirs \in SUBSET {DirD, DirE}
    /\ im_files \in SUBSET {<<d, <<"o", ".", "j", "p", "g">>>> : d \in im_dirs}
    /\ im_effects = <<>>
    /\ im_album_hashes = <<>>
    /\ im_img_dirs = <<>>
    /\ im_force_check_exist = FALSE
    /\ im_force_check_empty = FALSE
    /\ im_n = 0
    /\ im_img_list = <<>>
    /\ HeapIdle
    /\ RegionsIdle
    /\ FourIdle
    /\ ConvIdle
    /\ CypherIdle
    /\ OrbitIdle
    /\ TreeIdle

NextImgur ==
    \/ \E album_hashes \in HashArgs, img_dirs \in DirArgs,
          force_check_exist \in BOOLEAN, force_check_empty \in BOOLEAN :
          download_hashes(album_hashes, img_dirs, force_check_exist, force_check_empty)
    \/ check_token_call
    \/ make_directory
    \/ fetch_images
    \/ download_album
    \/ \E img_list \in ImgLists, img_dir \in {DirD, DirE}, show_progress_bar \in BOOLEAN :
          download_images_call(img_list, img_dir, show_progress_bar)
    \/ \E album_hash \in {AlbumA, AlbumB} : get_album_info_call(album_hash)

SpecImgur == InitImgur /\ [][NextImgur]_vars

\* make_tree called on an array of up to MaxTreeLen numbers with a branch
\* factor of 1 to MaxBranch.
InitTree ==
    /\ \E length \in 0..MaxTreeLen, top \in TreeTops :
          tr_tree = tree_of(length, top)
    /\ tr_branch_factor \in 1..MaxBranch
    /\ tr_options \in [filler : Fillers, cage : BOOLEAN, return_as_list : BOOLEAN,
                       print_out : BOOLEAN]
    /\ tr_printed = <<>>
    /\ tr_returned = <<>>
    /\ tr_pc = "called"
    /\ HeapIdle
    /\ RegionsIdle
    /\ FourIdle
    /\ ConvIdle
    /\ CypherIdle
    /\ OrbitIdle
    /\ ImgurIdle

NextTree == make_tree

SpecTree == InitTree /\ [][NextTree]_vars


(***************************************************************************)
(* Heap order, as the specification states it.                             *)
(***************************************************************************)
HeapOrdered(h) ==
    \A i \in 1..(Len(h) - 1) : At(h, i) >= At(h, (i - 1) \div 2)

\* C1: starting from the empty list, after every insertion through move_up
\* the call has completed and the list is in min-heap order: for every
\* index i > 0, heap[i] >= heap[(i-1)//2].
C1_HeapOrderAfterEveryInsert ==
    heap_op = "move_up" => (heap_status = "returned" /\ HeapOrdered(heap))

\* Pairwise distinct values.
Distinct(h) == \A i, j \in 1..Len(h) : i # j => h[i] # h[j]

\* h2 holds the values of h1, each as often.
IsPermutation(h1, h2) ==
    /\ Len(h1) = Len(h2)
    /\ \A v \in HeapValues :
          Cardinality({i \in 1..Len(h1) : h1[i] = v})
              = Cardinality({i \in 1..Len(h2) : h2[i] = v})

\* Every existing child of 0-based index i is >= v.
ChildrenAtLeast(h, i, v) ==
    \A c \in {2 * i + 1, 2 * i + 2} : c < Len(h) => At(h, c) >= v

\* C7: on a non-empty list of pairwise distinct values move_down completes,
\* the list is a permutation of the input, the value that was at index 0
\* ends where every existing child is >= it, and the list is unchanged when
\* the root was already <= its children.
C7_SiftDownPlacesRoot ==
    (heap_op = "move_down" /\ Len(heap_in) > 0 /\ Distinct(heap_in)) =>
        /\ heap_status = "returned"
        /\ IsPermutation(heap_in, heap)
        /\ ChildrenAtLeast(heap, index(heap, At(heap_in, 0)), At(heap_in, 0))
        /\ (ChildrenAtLeast(heap_in, 0, At(heap_in, 0)) => heap = heap_in)

(***************************************************************************)
(* Regions, as the specification defines them: the maximal sets of 1-cells *)
(* linked by chains of horizontally, vertically or diagonally adjacent     *)
(* 1-cells.                                                                *)
(***************************************************************************)
OneCells(g) ==
    {c \in (0..(Len(g) - 1)) \X (0..(Len(g[1]) - 1)) : g[c[1] + 1][c[2] + 1] = 1}

Adjacent(c, d) == c # d /\ Abs(c[1] - d[1]) <= 1 /\ Abs(c[2] - d[2]) <= 1

RECURSIVE Linked(_, _)
Linked(S, cells) ==
    LET T == S \cup {c \in cells : \E d \in S : Adjacent(c, d)}
    IN  IF T = S THEN S ELSE Linked(T, cells)

Components(g) == {Linked({c}, OneCells(g)) : c \in OneCells(g)}

RegionSets == {ToSet(regions_out[k]) : k \in 1..Len(regions_out)}

\* C2: for every rectangular 0/1 grid find_regions returns exactly the
\* maximal 8-connected components of the 1-cells.
C2_RegionsAreComponents ==
    regions_pc = "done" => RegionSets = Components(grid)

\* C3: the returned regions partition the 1-cells: their union is the set of
\* 1-cells, no coordinate is in two regions, none is twice in one region.
C3_RegionsPartitionOnes ==
    regions_pc = "done" =>
        /\ UNION RegionSets = OneCells(grid)
        /\ \A i, j \in 1..Len(regions_out) :
              i # j => ToSet(regions_out[i]) \cap ToSet(regions_out[j]) = {}
        /\ \A i \in 1..Len(regions_out) :
              Len(regions_out[i]) = Cardinality(ToSet(regions_out[i]))

\* A grid whose regions need a second travel: (0,3) joins the first region
\* only through (1,2), which the first travel has merged into it.
C3_Witness ==
    /\ regions_pc = "done"
    /\ grid = <<<<1, 0, 0, 1>>, <<0, 1, 1, 0>>>>
    /\ Len(regions_out) = 1
    /\ Len(regions_out[1]) = 4

(***************************************************************************)
(* Positional notation, as the specification means it.                     *)
(***************************************************************************)
\* The value of a digit character: its place in DIGITS.
DigitValue(ch) == index(DIGITS, ch)

\* The value of a list of digit characters in base b.
RECURSIVE ValueOf(_, _)
ValueOf(d, b) ==
    IF d = <<>>
    THEN 0
    ELSE ValueOf(SubSeq(d, 1, Len(d) - 1), b) * b + DigitValue(d[Len(d)])

\* The digit values of n in base b, most significant first.
RECURSIVE TrueDigits(_, _)
TrueDigits(n, b) ==
    IF n < b THEN <<n>> ELSE Append(TrueDigits(n \div b, b), n % b)

TrueFours(n, b) == count(TrueDigits(n, b), 4)

\* C4: for n >= 2 and b >= 2 base10_to_base(n, b) is the standard base-b
\* numeral of n: the leading digit is not zero, every digit has a value
\* below b, and the digits weighted by the powers of b sum to n.
C4_StandardNumeral ==
    (conv_pc \notin {"idle", "start"} /\ conv_n >= 2 /\ conv_b >= 2) =>
        /\ conv_pc = "returned"
        /\ Len(conv_d) >= 1
        /\ conv_d[1] # "0"
        /\ \A k \in 1..Len(conv_d) :
              In(conv_d[k], DIGITS) /\ DigitValue(conv_d[k]) < conv_b
        /\ ValueOf(conv_d, conv_b) = conv_n

ReturnedBases == {max_fours[k][1] : k \in 1..Len(max_fours)}

\* C5: for num >= 3 fouriest_find returns as max count the greatest number
\* of digits 4 in the true base-b representation of num over the bases
\* 2..num-1, and exactly the bases that reach it.
C5_FouriestIsTrueMaximum ==
    (four_pc = "done" /\ four_num >= 3) =>
        LET bases == 2..(four_num - 1)
            best == CHOOSE m \in {TrueFours(four_num, b) : b \in bases} :
                        \A b \in bases : TrueFours(four_num, b) <= m
        IN  /\ max_num_four = best
            /\ ReturnedBases = {b \in bases : TrueFours(four_num, b) = best}

\* C6 as stated: fouriest_find(4048) returns max count 2 with exactly 2 tied
\* (base, representation) pairs, one of them base 1011 with "44".
C6_TwoTiedPairs ==
    (four_pc = "done" /\ four_num = DocNum) =>
        /\ max_num_four = 2
        /\ Len(max_fours) = 2
        /\ In(<<1011, <<"4", "4">>>>, max_fours)

\* C6 as amended: fouriest_find(4048) returns max count 2 with exactly 5 tied
\* (base, representation) pairs, for the bases 6, 7, 10, 12 and 1011, the
\* last with the representation "44".
C6_FiveTiedPairs ==
    (four_pc = "done" /\ four_num = DocNum) =>
        /\ max_num_four = 2
        /\ Len(max_fours) = 5
        /\ [k \in 1..5 |-> max_fours[k][1]] = <<6, 7, 10, 12, 1011>>
        /\ In(<<1011, <<"4", "4">>>>, max_fours)

\* The search over 4048 has run through every base and returned.
C6_Witness ==
    /\ four_pc = "done"
    /\ four_num = DocNum
    /\ four_i = DocNum
    /\ Len(max_fours) > 0

(***************************************************************************)
(* The 5x5 table, as the specification describes it: the letters a to x    *)
(* one to a cell, row by row, and y and z together in the last cell.       *)
(***************************************************************************)
\* The value of a decimal digit character.
DigitValue10(ch) == index(DecimalDigits, ch)

\* 1-indexed (row, col) of a lower-case letter.
CellOf(let) ==
    LET k == IF let \in {"y", "z"} THEN 24 ELSE index(LowerCase, let)
    IN  <<(k \div 5) + 1, (k % 5) + 1>>

\* What decoding shows for the cell at 1-indexed (row, col).
ShownAt(row, col) ==
    IF row = 5 /\ col = 5
    THEN <<"(", "y", "z", ")">>
    ELSE <<LowerCase[(row - 1) * 5 + col]>>

OneLetter(words, n) == Len(words) >= n /\ Len(words[n]) = 1 /\ In(words[n][1], LowerCase)

\* C8: for a letter held alone in its cell (a to x) let_to_num gives the two
\* digits (row+1)(col+1) of the cell and decypher_num of that code gives the
\* letter back; for y and z the code is "55" and decoding gives "(yz)".
C8_LetterCodeRoundTrip ==
    (cy_pc \in {"encoded", "round_trip"} /\ Len(cy_words) = 1 /\ OneLetter(cy_words, 1)) =>
        LET let == cy_words[1][1]
            cell == CellOf(let)
        IN  /\ cy_cyph_nums[1] = <<DecimalDigits[cell[1] + 1], DecimalDigits[cell[2] + 1]>>
            /\ let \in {"y", "z"} => cy_cyph_nums[1] = <<"5", "5">>
            /\ cy_pc = "round_trip" =>
                  cy_new_word = IF let \in {"y", "z"}
                                THEN <<"(", "y", "z", ")">>
                                ELSE <<let>>

\* The letter u has been encoded as "51" and decoded back to u.
C8_Witness ==
    /\ cy_pc = "round_trip"
    /\ cy_words = <<<<"u">>>>
    /\ cy_cyph_nums = <<<<"5", "1">>>>
    /\ cy_new_word = <<"u">>

\* C9: the sum of the codes of a non-empty group of non-empty words of the
\* table is a digit string of even length whose digits all lie in
\* 1..rows, and decoding it never indexes outside the table.
C9_SumDigitsInTable ==
    /\ cy_pc # "IndexError"
    /\ cy_pc \in {"summed", "decoded"} =>
          /\ Len(cy_sum_num) % 2 = 0
          /\ \A k \in 1..Len(cy_sum_num) :
                /\ In(cy_sum_num[k], DecimalDigits)
                /\ DigitValue10(cy_sum_num[k]) \in 1..Len(CYPHER)

\* y + y: 55 + 55 = 110, three digits with a 0; the leading 1 goes and the
\* 0 becomes 5, and "15" decodes to e.
C9_Witness ==
    /\ cy_pc = "decoded"
    /\ cy_words = <<<<"y">>, <<"y">>>>
    /\ cy_sum_num = <<"1", "5">>
    /\ cy_new_word = <<"e">>

\* C10: two one-letter words at 1-indexed (r1, c1) and (r2, c2) with
\* c1 + c2 <= 9 encode, sum and decode to the cell at row
\* ((r1+r2-1) mod 5)+1 and column ((c1+c2-1) mod 5)+1.
C10_TwoLetterSum ==
    (cy_pc = "decoded" /\ Len(cy_words) = 2
        /\ OneLetter(cy_words, 1) /\ OneLetter(cy_words, 2)) =>
        LET a == CellOf(cy_words[1][1])
            b == CellOf(cy_words[2][1])
        IN  a[2] + b[2] <= 9 =>
               cy_new_word = ShownAt(((a[1] + b[1] - 1) % 5) + 1,
                                     ((a[2] + b[2] - 1) % 5) + 1)

\* "a" + "a" has decoded to "g".
C10_Witness ==
    /\ cy_pc = "decoded"
    /\ cy_words = <<<<"a">>, <<"a">>>>
    /\ cy_new_word = <<"g">>

\* The words of the group holding a character without a cell in the table.
WordsWithoutCode(words) ==
    {n \in 1..Len(words) :
        \E k \in 1..Len(words[n]) : let_to_num(lower(words[n][k])) = NoCode}

\* C11: words_to_cyph_nums raises whenever some character of some word has
\* no cell in the table, and only then, and the error names a character
\* without a cell (as given or lower-cased) and the word that holds it.
C11_ErrorNamesCharacter ==
    cy_pc \notin {"idle", "start"} =>
        IF WordsWithoutCode(cy_words) = {}
        THEN cy_pc # "Exception"
        ELSE /\ cy_pc = "Exception"
             /\ \E n \in WordsWithoutCode(cy_words) :
                   \E k \in 1..Len(cy_words[n]) :
                      /\ let_to_num(lower(cy_words[n][k])) = NoCode
                      /\ cy_err[2] = cy_words[n]
                      /\ cy_err[1] \in {cy_words[n][k], lower(cy_words[n][k])}

(***************************************************************************)
(* The orbital simulator, as the specification describes it.               *)
(***************************************************************************)
\* The coordinate-wise arithmetic mean of the positions of the centered
\* bodies, or the origin when no body is centered.
MeanOfCentered(pos, centered) ==
    IF centered = <<>>
    THEN <<<<0, 1>>, <<0, 1>>>>
    ELSE [ind \in 1..2 |->
             fdiv(fsum([k \in 1..Len(centered) |-> At(pos, centered[k])[ind]]),
                  <<Len(centered), 1>>)]

\* C12: whenever the positions are projected to the screen, the first frame
\* included, the offset used is the mean of the positions of the centered
\* bodies as they are drawn, or the origin if no body is centered.
C12_OffsetIsMeanOfCentered ==
    frame_pos # <<>> => frame_offset = MeanOfCentered(frame_pos, orb_cinds)

\* The square of the length of a vector.
NormSquared(v) == fsum([k \in 1..Len(v) |-> fmul(v[k], v[k])])

\* v points along w: v is a positive multiple of w (2-D).
PointsAlong(v, w) ==
    /\ fsub(fmul(v[1], w[2]), fmul(v[2], w[1])) = <<0, 1>>
    /\ fadd(fmul(v[1], w[1]), fmul(v[2], w[2]))[1] > 0

\* C13: for two bodies of equal mass m at distance r > 0 the accelerations
\* of find_new_acc are opposite on every axis, of magnitude G*m/r^2, and
\* each points from its body toward the other body.
C13_EqualAndOpposite ==
    (orb_status = "returned" /\ orb_num_objects = 2 /\ orb_mass[1] = orb_mass[2]) =>
        LET to_other == [k \in 1..2 |-> fsub(orb_pos[2][k], orb_pos[1][k])]
            gm_over_rr == fdiv(fmul(orb_G, orb_mass[1]), NormSquared(to_other))
        IN  /\ \A k \in 1..2 : orb_acc[1][k] = fneg(orb_acc[2][k])
            /\ NormSquared(orb_acc[1]) = fmul(gm_over_rr, gm_over_rr)
            /\ NormSquared(orb_acc[2]) = fmul(gm_over_rr, gm_over_rr)
            /\ PointsAlong(orb_acc[1], to_other)
            /\ PointsAlong(orb_acc[2], [k \in 1..2 |-> fneg(to_other[k])])

\* Two bodies of mass 1 at (0, 0) and (3, 4) with G = 1: r = 5, and the
\* accelerations are (3/125, 4/125) and its opposite, of magnitude 1/25.
C13_Witness ==
    /\ orb_status = "returned"
    /\ orb_mass = <<<<1, 1>>, <<1, 1>>>>
    /\ orb_pos = <<<<<<0, 1>>, <<0, 1>>>>, <<<<3, 1>>, <<4, 1>>>>>>
    /\ orb_G = <<1, 1>>
    /\ orb_acc = <<<<<<3, 125>>, <<4, 125>>>>, <<<<-3, 125>>, <<-4, 125>>>>>>

\* The state of the bodies.
BodyState == <<orb_pos, orb_vel, orb_mass, orb_num_objects>>

\* C20 as stated: the positions, velocities, masses and the number of
\* bodies change only in the update the timer drives (its slot and the paint
\* event the slot asks for).
C20_OnlyTimerChangesBodies ==
    [][BodyState' # BodyState => (multi_update \/ paintEvent)]_vars

\* C20 as amended: the positions, velocities, masses and the number of
\* bodies change only in the paint event of the foreground, which every
\* timer tick asks for, and in a mouse click made while a placement is
\* primed, which appends one body and leaves the other bodies as they are.
C20_OnlyPaintOrPlacementChangesBodies ==
    [][BodyState' # BodyState =>
          \/ paintEvent
          \/ /\ place_new_body
             /\ \E px \in ClickXs, py \in ClickYs : mousePressEvent(px, py)
             /\ orb_num_objects' = orb_num_objects + 1
             /\ SubSeq(orb_pos', 1, orb_num_objects) = orb_pos
             /\ SubSeq(orb_vel', 1, orb_num_objects) = orb_vel
             /\ SubSeq(orb_mass', 1, orb_num_objects) = orb_mass]_vars

\* A body has been placed by a click and the simulation has stepped twice.
C20_Witness ==
    /\ orb_status = "running"
    /\ orb_num_objects = 3
    /\ Len(orb_pos) = 3
    /\ orb_steps = 2
    /\ ~place_new_body

\* C14: a call of download_hashes (download_albums) never ends with the
\* I/O failure or the missing-key failure of the API path, the absent
\* imgur_api_info.ini included: such a failure is answered by the HTML path.
C14_FallsBackOnApiFailure ==
    (im_entry = "download_hashes" /\ im_pc = "raised")
        => im_exc \notin {"IOError", "KeyError"}

\* C15: _get_album_info called while imgur_api_info.ini does not exist ends
\* with the missing-configuration error (IOError) without a network request
\* and without a file or directory written.
C15_NoConfigNoRequest ==
    [][((\E album_hash \in {AlbumA, AlbumB} : get_album_info_call(album_hash))
           /\ ~im_ini.exists)
        => (/\ im_pc' = "raised"
            /\ im_exc' = "IOError"
            /\ im_effects' = <<>>
            /\ UNCHANGED <<im_ini, im_dirs, im_files>>)]_vars

C15_Witness ==
    /\ im_entry = "_get_album_info"
    /\ ~im_ini.exists
    /\ im_pc = "raised"
    /\ im_exc = "IOError"

\* The number of albums after a str is wrapped, and the number of
\* directories after a str is given to every album.
WrappedLen(album_hashes) ==
    IF album_hashes.type = "str" THEN 1 ELSE Len(album_hashes.value)

BroadcastLen(img_dirs, album_hashes) ==
    IF img_dirs.type = "str" THEN WrappedLen(album_hashes) ELSE Len(img_dirs.value)

Mismatched(args) ==
    WrappedLen(args.album_hashes) # BroadcastLen(args.img_dirs, args.album_hashes)

\* C16: download_hashes called with lists of different lengths (a str hash
\* counted as one album, a str directory as one per album) raises Exception
\* at once: no token check, request, prompt, directory or file comes first.
C16_MismatchFailsFirst ==
    [][(im_pc = "start" /\ im_entry' = "download_hashes" /\ Mismatched(im_args'))
        => (/\ im_pc' = "raised"
            /\ im_exc' = "Exception"
            /\ im_effects' = <<>>
            /\ UNCHANGED <<im_ini, im_dirs, im_files>>)]_vars

C16_Witness ==
    /\ im_entry = "download_hashes"
    /\ Mismatched(im_args)
    /\ im_pc = "raised"
    /\ im_exc = "Exception"
    /\ im_args.album_hashes.type = "str"
    /\ Len(im_args.img_dirs.value) = 2

\* https://i.imgur.com/{hash}{ext} and {img_dir}/{hash}{ext}
ExpectedDownload(img, img_dir) ==
    <<"urlretrieve", download_url(img), img_dir \o <<"/">> \o img[1] \o img[2]>>

\* C17: download_images, with the progress bar and without it, retrieves
\* each image of img_list once and in order from
\* https://i.imgur.com/{hash}{ext} into {hash}{ext} of img_dir.
C17_DownloadsEveryImage ==
    (im_entry = "download_images" /\ im_args.img_dir \in im_dirs)
        => /\ im_pc = "returned"
           /\ im_effects =
                 [k \in 1..Len(im_args.img_list) |->
                     ExpectedDownload(im_args.img_list[k], im_args.img_dir)]
           /\ \A k \in 1..Len(im_args.img_list) :
                 <<im_args.img_dir, im_args.img_list[k][1] \o im_args.img_list[k][2]>>
                     \in im_files

\* B^0 + B^1 + ... + B^(n-1), and the smallest number of levels that hold
\* L nodes.
GeometricSum(B, n) == nodes_above(B, n)

SmallestLevels(L, B) ==
    CHOOSE n \in 0..L : GeometricSum(B, n) >= L /\ \A m \in 0..(n - 1) : GeometricSum(B, m) < L

NodeRows(rows) == SelectSeq(rows, LAMBDA row : row[1] = "|")

\* C18: for an array of L >= 1 numbers and a branch factor B >= 1, the
\* rows make_tree prints (print_out) and the rows it returns
\* (return_as_list) hold exactly levels rows of nodes, levels the smallest
\* number with B^0 + ... + B^(levels-1) >= L.
C18_RowsAreLevels ==
    tr_pc = "returned"
        => LET levels == SmallestLevels(Len(tr_tree), tr_branch_factor)
           IN  /\ tr_options.print_out => Len(NodeRows(tr_printed)) = levels
               /\ tr_options.return_as_list => Len(NodeRows(tr_returned)) = levels
               /\ tr_branch_factor = 1 => levels = Len(tr_tree)

C18_Witness ==
    /\ tr_pc = "returned"
    /\ Len(tr_tree) = 35
    /\ tr_branch_factor = 3
    /\ tr_options.print_out
    /\ tr_options.return_as_list
    /\ Len(NodeRows(tr_printed)) = 4
    /\ Len(NodeRows(tr_returned)) = 4

\* The number of 4's of num in base b, the largest such number over the
\* bases 2..num-1 (0 when there is none), and the bases that reach it, in
\* increasing order, each with its representation.
FoursIn(num4, b) == count(base10_to_base(num4, b).d, "4")

NoBreakMax(num4) ==
    LET counts == {0} \cup {FoursIn(num4, b) : b \in 2..(num4 - 1)}
    IN  CHOOSE c \in counts : \A e \in counts : e <= c

NoBreakPairs(num4) ==
    LET largest == NoBreakMax(num4)
        bases == SelectSeq([k \in 1..(num4 - 2) |-> k + 1],
                           LAMBDA b : FoursIn(num4, b) = largest)
    IN  [k \in 1..Len(bases) |-> <<bases[k], base10_to_base(num4, bases[k]).d>>]

\* C19: what fouriest_find returns, the maximum and the (base,
\* representation) pairs, is what the search of all the bases 2..num-1
\* without the break gives: the bases that reach the largest number of 4's,
\* in increasing order.
C19_BreakKeepsOutcome ==
    four_pc = "done"
        => /\ max_num_four = NoBreakMax(four_num)
           /\ max_fours = NoBreakPairs(four_num)

C19_Witness ==
    /\ four_pc = "done"
    /\ four_num = 124
    /\ four_i = 12
    /\ max_num_four = 3
    /\ max_fours = <<<<5, <<"4", "4", "4">>>>>>

\* The per-body arrays hold one entry per object.
ArraysHaveNumObjects ==
    /\ Len(orb_mass) = orb_num_objects
    /\ Len(orb_vel) = orb_num_objects
    /\ Len(orb_pos) = orb_num_objects
    /\ Len(body_colors) = orb_num_objects
    /\ Len(line_colors) = orb_num_objects
    /\ Len(show_paths) = orb_num_objects

\* C21: after any steps of the simulation and placements of bodies the
\* mass, velocity, position, body-colour, line-colour and show-path arrays
\* have num_objects entries each; num_objects never decreases; a body that
\* is placed is black with a hidden path, and stays so.
C21_ArraysFollowNumObjects ==
    /\ []ArraysHaveNumObjects
    /\ [][/\ orb_num_objects' >= orb_num_objects
          /\ SubSeq(body_colors', 1, Len(body_colors)) = body_colors
          /\ SubSeq(line_colors', 1, Len(line_colors)) = line_colors
          /\ SubSeq(show_paths', 1, Len(show_paths)) = show_paths
          /\ orb_num_objects' > orb_num_objects
                => /\ orb_num_objects' = orb_num_objects + 1
                   /\ body_colors'[orb_num_objects'] = "black"
                   /\ line_colors'[orb_num_objects'] = "black"
                   /\ show_paths'[orb_num_objects'] = FALSE]_vars

C21_Witness ==
    /\ orb_status = "running"
    /\ orb_num_objects = 3
    /\ orb_steps = 1
    /\ ArraysHaveNumObjects
    /\ body_colors[3] = "black"
    /\ show_paths[3] = FALSE
    /\ body_colors[1] = "firebrick"

\* The Place button pressed with texts that all parse, and with some text
\* that does not.
AcceptParsed(velx, vely, mass_text) ==
    /\ add_body_accept(velx, vely, mass_text)
    /\ parses_as_float(velx) /\ parses_as_float(vely) /\ parses_as_float(mass_text)

AcceptUnparsed(velx, vely, mass_text) ==
    /\ add_body_accept(velx, vely, mass_text)
    /\ ~(parses_as_float(velx) /\ parses_as_float(vely) /\ parses_as_float(mass_text))

Click == \E px \in ClickXs, py \in ClickYs : mousePressEvent(px, py)

\* C22: a click adds a body exactly when the Add Body popup was accepted
\* with a mass and a velocity that parse since the last placement.  The
\* placement is primed by such an accept and by nothing else, and stays
\* primed until a click; an accept records its own values, over those of an
\* earlier accept; a click while primed adds one body with the recorded
\* values and un-primes; a click while not primed changes nothing.
C22_ClickPlacesWhenPrimed ==
    [][/\ \A velx \in VelXTexts, vely \in VelYTexts, mass_text \in MassTexts :
             /\ AcceptParsed(velx, vely, mass_text)
                   => /\ place_new_body'
                      /\ new_obj_mass' = <<float_of_text(mass_text)>>
                      /\ new_obj_vel' = <<float_of_text(velx), fneg(float_of_text(vely))>>
                      /\ orb_num_objects' = orb_num_objects
             /\ AcceptUnparsed(velx, vely, mass_text)
                   => UNCHANGED <<place_new_body, new_obj_mass, new_obj_vel,
                                  orb_num_objects>>
       /\ (Click /\ place_new_body)
             => /\ ~place_new_body'
                /\ orb_num_objects' = orb_num_objects + 1
                /\ orb_mass' = Append(orb_mass, new_obj_mass[1])
                /\ orb_vel' = Append(orb_vel, new_obj_vel)
                /\ Len(orb_pos') = Len(orb_pos) + 1
       /\ (Click /\ ~place_new_body) => UNCHANGED vars
       /\ (place_new_body' /\ ~place_new_body)
             => \E velx \in VelXTexts, vely \in VelYTexts, mass_text \in MassTexts :
                   AcceptParsed(velx, vely, mass_text)
       /\ (place_new_body /\ ~place_new_body') => Click
       /\ orb_num_objects' # orb_num_objects => (Click /\ place_new_body)]_vars

\* A body was placed with the mass of an accept.
C22_Witness ==
    /\ orb_status = "running"
    /\ orb_num_objects = 3
    /\ ~place_new_body
    /\ new_obj_mass = <<>>
    /\ orb_mass[3] = <<2, 1>>
    /\ orb_vel[3] = <<<<-1, 1>>, <<0, 1>>>>

\* C23: the Accept button of the popup of G or dt pressed with a text that
\* does not parse as a float changes nothing: G and dt keep their values,
\* the popup stays open and no error is raised.
C23_UnparsedTextRejected ==
    [][\A typed \in ValueTexts :
          (change_value_accept(typed[1], typed[2]) /\ ~parses_as_float(typed[2]))
              => UNCHANGED <<orb_G, orb_dt, popups, orb_status>>]_vars

\* The step is _get_album_info(album_hash) called by itself on a usable
\* .ini file and answered by the API with `answer`.
AlbumInfoAnswered(album_hash, answer) ==
    LET done == get_album_info(im_ini, album_hash, answer)
    IN  /\ get_album_info_call(album_hash)
        /\ im_ini.exists /\ im_ini.section /\ IniKeys \subseteq im_ini.keys
        /\ im_effects' = im_effects \o done.effects
        /\ im_img_list' = done.img_list
        /\ im_exc' = (IF done.exc # "None" THEN done.exc ELSE im_exc)

\* C24: when the API answers the album request of _get_album_info with
\* status 403, the function asks for a new access token with the refresh
\* token, writes it over access_token in the .ini file, and ends with the
\* failure its caller answers by the HTML path (IOError or KeyError).
C24_ForbiddenRefreshesToken ==
    [][\A album_hash \in {AlbumA, AlbumB} :
          AlbumInfoAnswered(album_hash, "forbidden")
              => /\ \E k \in 1..Len(im_effects') :
                       im_effects'[k][1] = "requests.post" /\ im_effects'[k][2] = TOKEN_URL
                 /\ \E k \in 1..Len(im_effects') : im_effects'[k][1] = "write"
                 /\ im_ini'.access_token = NEW_TOKEN
                 /\ im_pc' = "raised"
                 /\ im_exc' \in {"IOError", "KeyError"}]_vars

\* The prompts a step adds to the effects that ask `string` about img_dir.
Asked(string, img_dir) ==
    \E k \in Len(im_effects) + 1..Len(im_effects') :
        im_effects'[k] = <<"input", <<string>>, img_dir>>

\* os.listdir(img_dir) is not empty.
Nonempty(img_dir) == \E f \in im_files : f[1] = img_dir

\* C25: for an album n whose directory exists, 'is nonempty' is asked only
\* when force_check_empty is set and the directory of album n itself holds
\* a file, and it is asked whenever both hold and the user did not decline
\* 'already exists' (that question is not asked, or the album goes on to
\* the fetch of its images).
C25_AsksAboutOwnDirectory ==
    [][(make_directory /\ At(im_img_dirs, im_n) \in im_dirs)
          => LET img_dir == At(im_img_dirs, im_n)
             IN  /\ Asked("is nonempty", img_dir)
                       => im_force_check_empty /\ Nonempty(img_dir)
                 /\ (/\ im_force_check_empty
                     /\ Nonempty(img_dir)
                     /\ ~im_force_check_exist \/ im_pc' = "fetch")
                       => Asked("is nonempty", img_dir)]_vars

\* The directories os.makedirs was called on, in the order of the calls.
MadeDirs ==
    LET made == SelectSeq(im_effects, LAMBDA e : e[1] = "os.makedirs")
    IN  [k \in 1..Len(made) |-> made[k][2]]

\* The step is the album n of download_hashes stopped by a declined
\* question.
Declined == make_directory /\ im_pc' # "fetch"

\* No request of the image list of album_hash is in the effects.
NeverFetched(album_hash) ==
    \A k \in 1..Len(im_effects) :
        im_effects[k][2] \notin {album_url(album_hash), grid_url(album_hash)}

\* C26: a declined question skips its album only: the step fetches no image
\* list and downloads no file, and goes on with the album n + 1 (or returns
\* after the last album); os.makedirs is called on the directories in their
\* order, and on every one of them when download_hashes returns.
C26_DeclineSkipsOneAlbum ==
    /\ [](im_entry = "download_hashes" /\ im_pc \notin {"start", "check_token"}
             => /\ Len(MadeDirs) <= Len(im_img_dirs)
                /\ MadeDirs = SubSeq(im_img_dirs, 1, Len(MadeDirs))
                /\ (im_pc = "returned" /\ im_exc = "None")
                       => Len(MadeDirs) = Len(im_album_hashes))
    /\ [][Declined
             => /\ \A k \in Len(im_effects) + 1..Len(im_effects') :
                      im_effects'[k][1] \in {"os.makedirs", "input"}
                /\ UNCHANGED <<im_files, im_img_list, im_dirs, im_exc>>
                /\ im_n' = im_n + 1
                /\ im_pc' = (IF im_n' < Len(im_album_hashes) THEN "album" ELSE "returned")]_vars

\* download_hashes(['a', 'b'], ...) has returned: the question about the
\* first album was declined and nothing of it was fetched, the second album
\* was downloaded.
C26_Witness ==
    /\ im_entry = "download_hashes"
    /\ im_pc = "returned"
    /\ im_album_hashes = <<AlbumA, AlbumB>>
    /\ NeverFetched(AlbumA)
    /\ \E k \in 1..Len(im_effects) : im_effects[k][1] = "input"
    /\ \E k \in 1..Len(im_effects) :
          im_effects[k][1] = "urlretrieve" /\ im_effects[k][2] = download_url(ServerImages(AlbumB)[1])

\* h1 comes before h2 in the lexicographic order of lists of one length.
LexLess(h1, h2) ==
    \E k \in 1..Len(h1) :
        /\ h1[k] < h2[k]
        /\ \A j \in 1..(k - 1) : h1[j] = h2[j]

\* The loop of move_down has ended, by a return or by an exception.
Halted == heap_op = "move_down_loop" /\ heap_status \in {"returned", "TypeError"}

\* C27: on every list, with duplicates or not, move_down halts: every turn
\* that swaps leaves a list of the same values that comes earlier in the
\* lexicographic order, so only finitely many turns can swap, and the call
\* ends as the loop run in one piece does; on the empty list the call
\* returns before the loop and the list stays empty.
C27_SiftDownHalts ==
    /\ <>Halted
    /\ [](Halted => <<heap, heap_status>> =
                        <<move_down_result(heap_in).heap, move_down_result(heap_in).status>>)
    /\ [][/\ (move_down_enter /\ heap = <<>>)
                => heap' = <<>> /\ heap_status' = "returned"
          /\ (move_down_iterate /\ heap_status' = "running")
                => IsPermutation(heap, heap') /\ LexLess(heap', heap)]_vars

\* move_down has returned on a list that holds the value of its root twice,
\* after at least one swap.
C27_Witness ==
    /\ heap_op = "move_down_loop"
    /\ heap_status = "returned"
    /\ heap # heap_in
    /\ \E k \in 2..Len(heap_in) : heap_in[k] = heap_in[1]

\* The length of the longest text among the numbers of t, and a width made
\* odd.
LongestText(t) ==
    LET lengths == {Len(str(t[k])) : k \in 1..Len(t)}
    IN  CHOOSE n \in lengths : \A m \in lengths : m <= n

MadeOdd(n) == IF n % 2 = 0 THEN n + 1 ELSE n

\* The rows make_tree showed: the printed ones, else the returned ones.
ShownRows == IF tr_options.print_out THEN tr_printed ELSE tr_returned

\* C28: on every non-empty list of integers, negative ones included, the
\* width num_digits of make_tree is the length of the longest text among
\* the numbers, plus one when that is even: it is odd, the text of every
\* number fits in it, and every cell of a row of nodes is '|', the padding
\* of the row, num_digits characters, the padding again.
C28_WidthOfLongestText ==
    tr_pc = "returned"
        => LET B == tr_branch_factor
               width == MadeOdd(LongestText(tr_tree))
               levels == SmallestLevels(Len(tr_tree), B)
               rows == NodeRows(ShownRows)
               cells(r) ==
                   IF GeometricSum(B, r) > Len(tr_tree)
                   THEN Len(tr_tree) - GeometricSum(B, r - 1)
                   ELSE Pow(B, r - 1)
               padding(r) ==
                   ((Pow(B, levels - 1) - Pow(B, r - 1)) * (width + 1))
                       \div (2 * Pow(B, r - 1))
           IN  /\ num_digits_of(tr_tree) = width
               /\ width % 2 = 1
               /\ \A k \in 1..Len(tr_tree) : Len(str(tr_tree[k])) <= num_digits_of(tr_tree)
               /\ \A r \in 1..Len(rows) :
                     Len(rows[r]) = cells(r) * (1 + 2 * padding(r) + width) + 1

\* A border w characters wide: '+', w - 2 hyphens, '+'.
Border(w) == <<"+">> \o Repeat("-", w - 2) \o <<"+">>

\* max_spaces as the specification gives it: B^(levels-1) * (num_digits + 1).
MaxSpaces ==
    Pow(tr_branch_factor, SmallestLevels(Len(tr_tree), tr_branch_factor) - 1)
        * (num_digits_of(tr_tree) + 1)

\* With the cage, the rows are a border, then each row of nodes with a
\* border of its own width under it.
BordersUnderRows ==
    LET rows == ShownRows
        levels == SmallestLevels(Len(tr_tree), tr_branch_factor)
    IN  /\ Len(rows) = 2 * levels + 1
        /\ \A k \in 1..levels :
              /\ rows[2 * k][1] = "|"
              /\ rows[2 * k + 1] = Border(Len(rows[2 * k]))

CageShown ==
    tr_pc = "returned" /\ tr_options.cage
        /\ (tr_options.print_out \/ tr_options.return_as_list)

CellTexts(row) ==
    LET bars == SelectSeq([k \in 1..Len(row) |-> k], LAMBDA k : row[k] = "|")
    IN  [p \in 1..(Len(bars) - 1) |->
            SelectSeq(SubSeq(row, bars[p] + 1, bars[p + 1] - 1),
                      LAMBDA c : c \notin {" ", "."})]

\* The row (0-based) that holds the flat index i with B branches.
RowOf(i, B) == CHOOSE r \in 0..i : GeometricSum(B, r) <= i /\ i < GeometricSum(B, r + 1)

\* C30: the cell p of the row of nodes r shows
\* values[(B^0 + ... + B^(r-1)) + p] and the row r has min(B^r, values
\* remaining) cells; read row after row the cells give every value once in
\* the order of the array, and the children of the flat index i, B*i+1 to
\* B*i+B, are in the row under the row of i.
C30_CellsInBreadthFirstOrder ==
    (tr_pc = "returned" /\ (tr_options.print_out \/ tr_options.return_as_list))
        => LET B == tr_branch_factor
               L == Len(tr_tree)
               rows == NodeRows(ShownRows)
           IN  \A texts \in {[r \in 1..Len(rows) |-> CellTexts(rows[r])]},
                  above \in {[r \in 1..Len(rows) |-> GeometricSum(B, r - 1)]},
                  row_of \in {[i \in 0..(L - 1) |-> RowOf(i, B)]} :
                  /\ \A r \in 1..Len(rows) :
                        /\ Len(texts[r]) =
                              (IF Pow(B, r - 1) < L - above[r]
                               THEN Pow(B, r - 1)
                               ELSE L - above[r])
                        /\ texts[r] =
                              [p \in 1..Len(texts[r]) |-> str(At(tr_tree, above[r] + p - 1))]
                  /\ join(texts) = [k \in 1..L |-> str(tr_tree[k])]
                  /\ \A i \in 0..(L - 1) : \A c \in (B * i + 1)..(B * i + B) :
                        c < L => /\ row_of[c] = row_of[i] + 1
                                 /\ row_of[c] + 1 <= Len(rows)
                                 /\ c - above[row_of[c] + 1] + 1
                                       <= Len(texts[row_of[c] + 1])

\* The tree of 35 numbers with 3 branches: the last row shows the 22
\* numbers left, the last of them 100 (the flat index 34, a child of 11).
C30_Witness ==
    /\ tr_pc = "returned"
    /\ tr_options.print_out
    /\ Len(tr_tree) = 35
    /\ tr_tree[35] = 100
    /\ tr_branch_factor = 3
    /\ Len(NodeRows(tr_printed)) = 4
    /\ Len(CellTexts(NodeRows(tr_printed)[4])) = 22
    /\ CellTexts(NodeRows(tr_printed)[4])[22] = <<"1", "0", "0">>
    /\ CellTexts(NodeRows(tr_printed)[3])[1] = str(tr_tree[5])

====
